---------------------------- MODULE Spec2Model ----------------------------
(***************************************************************************)
(* A model of the Azure AI Foundry plugin for Genkit Go                    *)
(* (src/azureaifoundry_plugin.go): the streaming aggregator                *)
(* generateTextStream, the response converter convertResponse, the         *)
(* model-name router generateText, the handlers generateImages,            *)
(* generateSpeech and transcribeAudioFromRequest, the message translator   *)
(* convertMessagesToOpenAI, the config of a request, the plugin's lock     *)
(* around Init, DefineModel, DefineEmbedder and the requests, the tool     *)
(* calls of a turn on both chat paths, and embed.                          *)
(*                                                                         *)
(* Strings are sequences of one-character strings, so that concatenation,  *)
(* substring search and decoding are computed and not assumed.             *)
(***************************************************************************)
EXTENDS Integers, Sequences, FiniteSets, TLC

VARIABLES
    \* ---- generateTextStream ----
    pc,            \* position of the streaming call: "next", "delta", "done"
    chunk,         \* chunk := stream.Current()
    remaining,     \* tool-call deltas of the current chunk not yet ranged over
    nChunks,       \* chunks the loop has consumed
    nFragments,    \* text fragments and tool-call deltas the stream has carried
    fullText,      \* fullText strings.Builder
    toolCallsMap,  \* map[int]*toolCallAccumulator
    sinkCalls,     \* texts the sink callback cb has been invoked with, in order
    sinkFailed,    \* the sink callback has returned a failure
    streamErr,     \* stream.Err() # nil
    closed,        \* number of stream.Close() calls
    result,        \* what the call returned
    reported,      \* history: the finish reason and usage of the vendor's chunks
    sent,          \* history: per slot, what the vendor's deltas have carried
    \* ---- generateTextSync ----
    syncPc,        \* position of the unary call: "call", "done"
    resp,          \* what a.client.Chat.Completions.New returned
    syncResult,    \* what the call returned
    \* ---- generateText ----
    routePc,       \* position of the dispatch: "idle", "routed"
    modelName,     \* the model identifier of the request
    cbSupplied,    \* cb # nil
    handler,       \* the function generateText handed the request to
    cbHanded,      \* whether generateText handed the callback to the handler
    sinkInvoked,   \* whether the handler invoked the callback
    \* ---- the plugin and transcribeAudioFromRequest ----
    initted,       \* a.initted
    sttPc,         \* position of the transcription request: "idle", "done"
    sttInput,      \* input.Messages of the transcription request
    sttResult,     \* what the request returned
    vendorCalls,   \* calls of client.Audio.Transcriptions.New
    vendorFile,    \* the file of the last such call: its bytes and its name
    \* ---- convertMessagesToOpenAI ----
    nMessages,     \* messages of input.Messages the loop has ranged over
    msg,           \* the message of the current pass of the loop
    appended,      \* what the pass for msg appended to openAIMessages
    nOpenAI,       \* len(openAIMessages)
    requestIds,    \* history: name and call id of the tool requests translated
    \* ---- the requests built from input.Config and input.Tools ----
    reqKind,       \* the request built: "", "chat", "image", "speech", "stt"
    config,        \* input.Config
    inputTools,    \* input.Tools, by name
    built,         \* the request handed on: params or req
    \* ---- generateImages and generateSpeech ----
    modalPc,       \* position of the request: "idle", "done"
    modalKind,     \* the handler that ran: "", "generateImages", "generateSpeech"
    modalResult,   \* what the request returned
    modalCalls,    \* calls of client.Images.Generate and client.Audio.Speech.New
    modalParams,   \* the params of the last such call
    vendorData,    \* what the vendor returned: resp.Data, or the audio read
    \* ---- the plugin's lock, its callers and one request at a time ----
    mu,            \* who holds a.mu: "free", "Init", "Define", "request"
    client,        \* a.client: "zero" or "set"
    endpoint,      \* a.Endpoint, as the caller of Init left it: "" or "set"
    initPc,        \* position of a caller of Init
    definePc,      \* position of a caller of DefineModel or DefineEmbedder
    defining,      \* what that caller defines: "", "model", "embedder"
    registered,    \* the closures the registry holds
    rqPc,          \* position of the request
    rqKind,        \* the function that serves the request
    rqDocs,        \* documents an embedding request has still to embed
    rqCalls,       \* vendor calls the request has issued
    rqFailed,      \* whether the vendor reported a failure to the request
    rqReturn,      \* what the request returned
    lastRead,      \* the last read of a.client
    \* ---- the tool calls of one turn, on the two chat paths ----
    pathPc,        \* "idle" before the turn, "done" after it
    pathCalls,     \* the tool calls the vendor produced in the turn
    viaStream,     \* what generateTextStream returns for them
    viaSync,       \* what generateTextSync returns for them
    \* ---- embed ----
    embedPc,       \* position of the request: "idle", "loop", "done"
    embedInput,    \* req.Input, the documents
    embedIndex,    \* the document the loop is at
    embedSent,     \* history: the vendor calls, each with its document and text
    embeddings,    \* the vectors appended so far
    embedOrigins,  \* history: the document each vector was computed from
    embedResult    \* what the request returned

streamVars == <<pc, chunk, remaining, nChunks, nFragments, fullText,
                toolCallsMap, sinkCalls, sinkFailed, streamErr, closed,
                result, reported, sent>>

syncVars == <<syncPc, resp, syncResult>>

routeVars ==
    <<routePc, modelName, cbSupplied, handler, cbHanded, sinkInvoked>>

sttVars == <<initted, sttPc, sttInput, sttResult, vendorCalls, vendorFile>>

msgVars == <<nMessages, msg, appended, nOpenAI, requestIds>>

cfgVars == <<reqKind, config, inputTools, built>>

modalVars ==
    <<modalPc, modalKind, modalResult, modalCalls, modalParams, vendorData>>

lockVars ==
    <<mu, client, endpoint, initPc, definePc, defining, registered, rqPc, rqKind,
      rqDocs, rqCalls, rqFailed, rqReturn, lastRead>>

pathVars == <<pathPc, pathCalls, viaStream, viaSync>>

embedVars ==
    <<embedPc, embedInput, embedIndex, embedSent, embeddings, embedOrigins,
      embedResult>>

vars ==
    <<streamVars, syncVars, routeVars, sttVars, msgVars, cfgVars, modalVars,
      lockVars, pathVars, embedVars>>

-----------------------------------------------------------------------------
(* Bounds of the model *)

\* What one stream carries at most: its chunks and their tool-call deltas,
\* counted together.
MaxFragments == 4

\* Tool calls the message of one choice of a unary response carries at most.
MaxToolCalls == 2

\* Name segments a model identifier is made of at most.
MaxSegments == 2

\* Messages a request holds at most.
MaxMessages == 2

-----------------------------------------------------------------------------
(* Strings and JSON *)

\* The concatenation of a sequence of strings, in order.
RECURSIVE Flatten(_)
Flatten(ss) == IF ss = <<>> THEN <<>> ELSE Head(ss) \o Flatten(Tail(ss))

\* The sequences over S of length n at most.
SeqUpTo(S, n) == UNION {[1..k -> S] : k \in 0..n}

\* strings.Contains(s, sub)
Contains(s, sub) ==
    \E i \in 0..(Len(s) - Len(sub)) : SubSeq(s, i + 1, i + Len(sub)) = sub

\* The upper-case letters and their lower-case forms.
Uppers == <<"A", "B", "C", "D", "E", "F", "G", "H", "I", "J", "K", "L", "M",
           "N", "O", "P", "Q", "R", "S", "T", "U", "V", "W", "X", "Y", "Z">>
Lowers == <<"a", "b", "c", "d", "e", "f", "g", "h", "i", "j", "k", "l", "m",
           "n", "o", "p", "q", "r", "s", "t", "u", "v", "w", "x", "y", "z">>

\* strings.ToLower(s)
ToLower(s) ==
    [k \in DOMAIN s |->
        IF \E u \in DOMAIN Uppers : Uppers[u] = s[k]
        THEN Lowers[CHOOSE u \in DOMAIN Uppers : Uppers[u] = s[k]]
        ELSE s[k]]

\* Texts a chunk's delta.Content may carry.
TextVals == {<<>>, <<"a">>, <<"b">>}

\* Call ids, function names and argument fragments a tool-call delta may carry.
\* An argument string is a sequence of JSON tokens: "{" and "}" are the braces
\* and "q" stands for one member ("q": 1).
\* Slots are the positional indexes the vendor gives to the tool calls of a turn.
Slots == {0, 1}
Ids == {"", "call_1"}
Names == {"", "f", "g"}
Frags == {<<>>, <<"{">>, <<"}">>}

\* The value of a nil map[string]interface{}.
NilArgs == [isNil |-> TRUE, keys |-> {}]

\* json.Unmarshal([]byte(s), &args) with args a map[string]interface{}: it
\* succeeds on a JSON object, here "{" "}" around at most one member, and
\* fails on everything else, the empty string included.
JSONUnmarshal(s) ==
    IF Len(s) >= 2 /\ s[1] = "{" /\ s[Len(s)] = "}"
       /\ (Len(s) = 2 \/ (Len(s) = 3 /\ s[2] = "q"))
    THEN [ok |-> TRUE,
          args |-> [isNil |-> FALSE, keys |-> IF Len(s) = 3 THEN {"q"} ELSE {}]]
    ELSE [ok |-> FALSE, args |-> NilArgs]

-----------------------------------------------------------------------------
(* Parts and responses *)

NewTextPart(s) ==
    [type |-> "text", text |-> s, name |-> "", input |-> NilArgs]

NewToolRequestPart(n, a) ==
    [type |-> "toolRequest", text |-> <<>>, name |-> n, input |-> a]

\* A response whose Usage is nil.
NoUsage == [set |-> FALSE, input |-> 0, output |-> 0, total |-> 0]

NoResult ==
    [kind |-> "none", err |-> "", content |-> <<>>, finishReason |-> "",
     usage |-> NoUsage]

\* return nil, fmt.Errorf(what + ": %w", err)
Failure(what) ==
    [kind |-> "err", err |-> what, content |-> <<>>, finishReason |-> "",
     usage |-> NoUsage]

\* return &ai.ModelResponse{Message: {Role: model, Content: c},
\*                          FinishReason: fr, Usage: u}, nil
Response(c, fr, u) ==
    [kind |-> "ok", err |-> "", content |-> c, finishReason |-> fr,
     usage |-> u]

-----------------------------------------------------------------------------
(* generateTextStream *)

\* chunk.Choices[0].Delta.ToolCalls[k]
Deltas == [index : Slots, id : Ids, name : Names, arguments : Frags]

\* What stream.Current() yields: whether the chunk has a first choice, the
\* text of its delta and the number of tool-call deltas it carries.
NoChunk == [hasChoice |-> FALSE, content |-> <<>>, nToolCalls |-> 0]

Chunks(budget) ==
    {NoChunk} \cup
    {[hasChoice |-> TRUE, content |-> t, nToolCalls |-> n] :
        t \in TextVals, n \in 0..budget}

\* What a chunk takes from the budget of the stream.
FragmentsOf(c) == 1 + c.nToolCalls

\* An accumulation that takes the call id from every delta.
AccumulateDeltaLatestId(m, d) ==
    LET idx == d.index
        m1 == IF idx \notin DOMAIN m
              THEN m @@ (idx :> [id |-> d.id, name |-> "", arguments |-> <<>>])
              ELSE [m EXCEPT ![idx].id = d.id]
        m2 == IF d.name # ""
              THEN [m1 EXCEPT ![idx].name = d.name]
              ELSE m1
    IN  IF d.arguments # <<>>
        THEN [m2 EXCEPT ![idx].arguments = @ \o d.arguments]
        ELSE m2

\* The body of the loop over delta.ToolCalls for one delta.
AccumulateDelta(m, d) ==
    LET idx == d.index
        m1 == IF idx \notin DOMAIN m
              THEN m @@ (idx :> [id |-> d.id, name |-> "", arguments |-> <<>>])
              ELSE m
        m2 == IF d.name # ""
              THEN [m1 EXCEPT ![idx].name = d.name]
              ELSE m1
    IN  IF d.arguments # <<>>
        THEN [m2 EXCEPT ![idx].arguments = @ \o d.arguments]
        ELSE m2

\* A conversion that decodes the buffer of every accumulator, named or not.
RECURSIVE ToolPartsDecodeFirst(_, _)
ToolPartsDecodeFirst(m, order) ==
    IF order = <<>> THEN [ok |-> TRUE, parts |-> <<>>]
    ELSE LET toolCall == m[Head(order)]
             rest == ToolPartsDecodeFirst(m, Tail(order))
             dec == JSONUnmarshal(toolCall.arguments)
         IN  IF Len(toolCall.arguments) > 0 /\ ~dec.ok
             THEN [ok |-> FALSE, parts |-> <<>>]
             ELSE IF toolCall.name = "" \/ ~rest.ok THEN rest
             ELSE [ok |-> TRUE,
                   parts |-> <<NewToolRequestPart(
                                  toolCall.name,
                                  IF Len(toolCall.arguments) > 0
                                  THEN dec.args ELSE NilArgs)>> \o rest.parts]

\* A conversion that skips an accumulator whose buffer does not decode.
RECURSIVE ToolPartsSkipping(_, _)
ToolPartsSkipping(m, order) ==
    IF order = <<>> THEN [ok |-> TRUE, parts |-> <<>>]
    ELSE LET toolCall == m[Head(order)]
             rest == ToolPartsSkipping(m, Tail(order))
             dec == JSONUnmarshal(toolCall.arguments)
         IN  IF toolCall.name = "" \/ (Len(toolCall.arguments) > 0 /\ ~dec.ok)
             THEN rest
             ELSE [ok |-> TRUE,
                   parts |-> <<NewToolRequestPart(
                                  toolCall.name,
                                  IF Len(toolCall.arguments) > 0
                                  THEN dec.args ELSE NilArgs)>> \o rest.parts]


\* convertToolCallsToParts, ranging over the map in the order given: the parts
\* of the accumulators that have a name, or the first decode failure.
RECURSIVE convertToolCallsToParts(_, _)
convertToolCallsToParts(m, order) ==
    IF order = <<>> THEN [ok |-> TRUE, parts |-> <<>>]
    ELSE LET toolCall == m[Head(order)]
             rest == convertToolCallsToParts(m, Tail(order))
             dec == JSONUnmarshal(toolCall.arguments)
         IN  IF toolCall.name = "" THEN rest
             ELSE IF Len(toolCall.arguments) > 0 /\ ~dec.ok
                  THEN [ok |-> FALSE, parts |-> <<>>]
             ELSE IF ~rest.ok THEN rest
             ELSE [ok |-> TRUE,
                   parts |-> <<NewToolRequestPart(
                                  toolCall.name,
                                  IF Len(toolCall.arguments) > 0
                                  THEN dec.args ELSE NilArgs)>> \o rest.parts]

\* The orders in which a range over a Go map may visit its keys.
Orders(S) ==
    {o \in [1..Cardinality(S) -> S] : \A i, j \in DOMAIN o : i # j => o[i] # o[j]}

\* A return that never looks at stream.Err().
FinishIgnoringErr(err, text, m, order) ==
    LET toolParts == convertToolCallsToParts(m, order)
        content == IF Len(text) > 0 THEN <<NewTextPart(text)>> ELSE <<>>
    IN  IF ~toolParts.ok THEN Failure("failed to convert tool calls")
        ELSE Response(content \o toolParts.parts, "stop", NoUsage)

\* What the call returns once stream.Next() has returned false.
Finish(err, text, m, order) ==
    IF err THEN Failure("stream error")
    ELSE LET toolParts == convertToolCallsToParts(m, order)
             content == IF Len(text) > 0 THEN <<NewTextPart(text)>> ELSE <<>>
         IN  IF ~toolParts.ok THEN Failure("failed to convert tool calls")
             ELSE Response(content \o toolParts.parts, "stop", NoUsage)

\* A close that only the successful return performs.
CloseOnSuccessOnly(n, r) == IF r.kind = "ok" THEN n + 1 ELSE n

\* The deferred stream.Close() runs once on every return, whatever is returned.
DeferredClose(n, r) == n + 1

\* A callback handed the text accumulated so far.
chunkResponseCumulative(text, c) == text

\* The text of the response chunk handed to the callback: delta.Content, where
\* text is fullText after the append.
chunkResponse(text, c) == c.content

\* A loop that goes on after a failure of the callback.
AfterContentIgnoringFailure(c, cbErr) ==
    IF c.nToolCalls > 0 THEN "delta" ELSE "next"

\* What the loop does after the text of a chunk: return on a failure of the
\* callback, else range over the tool-call deltas of the chunk.
AfterContent(c, cbErr) ==
    IF cbErr THEN "done"
    ELSE IF c.nToolCalls > 0 THEN "delta" ELSE "next"

\* The history of one slot: the number of deltas delivered for it, the id the
\* first of them carried, the last non-empty name and the argument fragments
\* joined in the order of arrival.
NothingSent ==
    [n |-> 0, firstId |-> "", lastName |-> "", frags |-> <<>>]

Delivered(h, d) ==
    [n |-> h.n + 1,
     firstId |-> IF h.n = 0 THEN d.id ELSE h.firstId,
     lastName |-> IF d.name # "" THEN d.name ELSE h.lastName,
     frags |-> h.frags \o d.arguments]

\* What the chunks of a stream that ended carried in
\* chunk.Choices[0].FinishReason and in chunk.Usage, fields the loop of
\* generateTextStream does not read.
StreamReports ==
    {[finishReason |-> "stop",
      usage |-> [promptTokens |-> 0, completionTokens |-> 0,
                 totalTokens |-> 0]],
     [finishReason |-> "length",
      usage |-> [promptTokens |-> 5, completionTokens |-> 7,
                 totalTokens |-> 12]]}

NoReport ==
    [finishReason |-> "",
     usage |-> [promptTokens |-> 0, completionTokens |-> 0,
                totalTokens |-> 0]]

StreamInit ==
    /\ pc = "next"
    /\ chunk = NoChunk
    /\ remaining = 0
    /\ nChunks = 0
    /\ nFragments = 0
    /\ fullText = <<>>
    /\ toolCallsMap = <<>>
    /\ sinkCalls = <<>>
    /\ sinkFailed = FALSE
    /\ streamErr = FALSE
    /\ reported = NoReport
    /\ closed = 0
    /\ result = NoResult
    /\ sent = [i \in Slots |-> NothingSent]

\* stream.Next() returns true: the loop takes the chunk, appends its text to
\* fullText and hands it to the callback, whose outcome is the caller's.
NextChunk(c, cbErr) ==
    /\ pc = "next"
    /\ nFragments + FragmentsOf(c) <= MaxFragments
    /\ cbErr => (c.hasChoice /\ c.content # <<>>)
    /\ chunk' = c
    /\ nChunks' = nChunks + 1
    /\ nFragments' = nFragments + FragmentsOf(c) - c.nToolCalls
    /\ IF c.hasChoice /\ c.content # <<>>
       THEN /\ fullText' = fullText \o c.content
            /\ sinkCalls' = Append(sinkCalls, chunkResponse(fullText', c))
       ELSE UNCHANGED <<fullText, sinkCalls>>
    /\ sinkFailed' = cbErr
    /\ pc' = AfterContent(c, cbErr)
    /\ remaining' = IF pc' = "delta" THEN c.nToolCalls ELSE 0
    /\ IF cbErr
       THEN /\ result' = Failure("streaming callback error")
            /\ closed' = DeferredClose(closed, result')
       ELSE UNCHANGED <<result, closed>>
    /\ UNCHANGED <<toolCallsMap, streamErr, reported, sent>>

\* One pass of the loop over delta.ToolCalls.
ToolCallDelta(d) ==
    /\ pc = "delta"
    /\ remaining > 0
    /\ toolCallsMap' = AccumulateDelta(toolCallsMap, d)
    /\ sent' = [sent EXCEPT ![d.index] = Delivered(@, d)]
    /\ nFragments' = nFragments + 1
    /\ remaining' = remaining - 1
    /\ pc' = IF remaining = 1 THEN "next" ELSE "delta"
    /\ UNCHANGED <<chunk, nChunks, fullText, sinkCalls, sinkFailed, streamErr,
                   closed, result, reported>>

\* stream.Next() returns false, at the end of the stream or on a transport
\* error, which stream.Err() reports after the loop.
StreamEnd(err, order, report) ==
    /\ pc = "next"
    /\ streamErr' = err
    /\ reported' = report
    /\ result' = Finish(err, fullText, toolCallsMap, order)
    /\ closed' = DeferredClose(closed, result')
    /\ pc' = "done"
    /\ UNCHANGED <<chunk, remaining, nChunks, nFragments, fullText,
                   toolCallsMap, sinkCalls, sinkFailed, sent>>

-----------------------------------------------------------------------------
(* generateTextSync and convertResponse *)

\* Argument strings of the tool calls of a unary response.
ArgStrings == {<<>>, <<"{", "}">>, <<"{", "q", "}">>, <<"}">>}

\* choice.Message.ToolCalls[k], as AsFunction() sees it.
ToolCalls == [id : Ids, name : {"f", "g"}, arguments : ArgStrings]

\* The finish reasons a vendor choice may carry.
VendorReasons ==
    {"stop", "length", "content_filter", "tool_calls", "function_call", "",
     "eos"}

\* resp.Usage
VendorUsages ==
    {[promptTokens |-> 0, completionTokens |-> 0, totalTokens |-> 0],
     [promptTokens |-> 0, completionTokens |-> 7, totalTokens |-> 7],
     [promptTokens |-> 5, completionTokens |-> 0, totalTokens |-> 5],
     [promptTokens |-> 5, completionTokens |-> 7, totalTokens |-> 12]}

\* resp.Choices[0], its message carrying at most n tool calls.
FirstChoices(n) ==
    [content : {<<>>, <<"a">>}, toolCalls : SeqUpTo(ToolCalls, n),
     finishReason : VendorReasons]

\* A choice after the first.
OtherChoice ==
    [content |-> <<"b">>,
     toolCalls |-> <<[id |-> "call_1", name |-> "g",
                      arguments |-> <<"{", "}">>]>>,
     finishReason |-> "length"]

\* The responses of the vendor: no choice, one choice, or two.
Responses(n) ==
    [choices : {<<>>} \cup {<<c>> : c \in FirstChoices(n)}
                     \cup {<<c, OtherChoice>> : c \in FirstChoices(n)},
     usage : VendorUsages]

NoResponse ==
    [choices |-> <<>>,
     usage |-> [promptTokens |-> 0, completionTokens |-> 0, totalTokens |-> 0]]

\* A table that has no entry for "content_filter".
convertFinishReasonUnfiltered(reason) ==
    CASE reason = "stop" -> "stop"
      [] reason = "length" -> "length"
      [] reason \in {"tool_calls", "function_call"} -> "stop"
      [] OTHER -> "other"

\* convertFinishReason
convertFinishReason(reason) ==
    CASE reason = "stop" -> "stop"
      [] reason = "length" -> "length"
      [] reason = "content_filter" -> "blocked"
      [] reason \in {"tool_calls", "function_call"} -> "stop"
      [] OTHER -> "other"

\* A conversion that keeps a tool call without arguments, with a nil input.
RECURSIVE ToolCallPartsKeepingEmpty(_)
ToolCallPartsKeepingEmpty(calls) ==
    IF calls = <<>> THEN <<>>
    ELSE LET toolCall == Head(calls)
             dec == JSONUnmarshal(toolCall.arguments)
             rest == ToolCallPartsKeepingEmpty(Tail(calls))
         IN  IF toolCall.id = "" THEN rest
             ELSE IF toolCall.arguments = <<>>
             THEN <<NewToolRequestPart(toolCall.name, NilArgs)>> \o rest
             ELSE IF ~dec.ok THEN rest
             ELSE <<NewToolRequestPart(toolCall.name, dec.args)>> \o rest

\* A conversion that gives up on the tool calls at the first decode failure.
RECURSIVE ToolCallPartsStopping(_)
ToolCallPartsStopping(calls) ==
    IF calls = <<>> THEN <<>>
    ELSE LET toolCall == Head(calls)
             dec == JSONUnmarshal(toolCall.arguments)
         IN  IF toolCall.id = "" THEN ToolCallPartsStopping(Tail(calls))
             ELSE IF ~dec.ok THEN <<>>
             ELSE <<NewToolRequestPart(toolCall.name, dec.args)>>
                      \o ToolCallPartsStopping(Tail(calls))

\* The loop of convertResponse over choice.Message.ToolCalls: one part per
\* function tool call that has an id and whose arguments decode.
RECURSIVE ToolCallParts(_)
ToolCallParts(calls) ==
    IF calls = <<>> THEN <<>>
    ELSE LET toolCall == Head(calls)
             dec == JSONUnmarshal(toolCall.arguments)
         IN  IF toolCall.id = "" \/ ~dec.ok THEN ToolCallParts(Tail(calls))
             ELSE <<NewToolRequestPart(toolCall.name, dec.args)>>
                      \o ToolCallParts(Tail(calls))

\* A usage that is copied when the vendor reports any token.
convertUsageIfAnyToken(u) ==
    IF u.totalTokens > 0
    THEN [set |-> TRUE, input |-> u.promptTokens,
          output |-> u.completionTokens, total |-> u.totalTokens]
    ELSE [set |-> TRUE, input |-> 0, output |-> 0, total |-> 0]

\* The usage of the response: copied when the vendor reports prompt tokens.
convertUsage(u) ==
    IF u.promptTokens > 0
    THEN [set |-> TRUE, input |-> u.promptTokens,
          output |-> u.completionTokens, total |-> u.totalTokens]
    ELSE [set |-> TRUE, input |-> 0, output |-> 0, total |-> 0]

\* A conversion from the last choice of the response.
convertResponseFromLastChoice(r) ==
    IF Len(r.choices) = 0 THEN Response(<<>>, "unknown", NoUsage)
    ELSE LET choice == r.choices[Len(r.choices)]
             content == IF choice.content # <<>>
                        THEN <<NewTextPart(choice.content)>> ELSE <<>>
         IN  Response(content \o ToolCallParts(choice.toolCalls),
                      convertFinishReason(choice.finishReason),
                      convertUsage(r.usage))

convertResponse(r) ==
    IF Len(r.choices) = 0 THEN Response(<<>>, "unknown", NoUsage)
    ELSE LET choice == r.choices[1]
             content == IF choice.content # <<>>
                        THEN <<NewTextPart(choice.content)>> ELSE <<>>
         IN  Response(content \o ToolCallParts(choice.toolCalls),
                      convertFinishReason(choice.finishReason),
                      convertUsage(r.usage))

SyncInit ==
    /\ syncPc = "call"
    /\ resp = NoResponse
    /\ syncResult = NoResult

\* a.client.Chat.Completions.New returns a response, which is converted.
SyncReturns ==
    /\ syncPc = "call"
    /\ \E r \in Responses(MaxToolCalls) :
          /\ resp' = r
          /\ syncResult' = convertResponse(r)
    /\ syncPc' = "done"

\* a.client.Chat.Completions.New returns an error.
SyncFails ==
    /\ syncPc = "call"
    /\ syncResult' = Failure("chat completion failed")
    /\ syncPc' = "done"
    /\ UNCHANGED resp

-----------------------------------------------------------------------------
(* generateText *)

\* The substrings generateText looks for in the lowered model identifier.
PatDallE == <<"d", "a", "l", "l", "-", "e">>
PatGptImage == <<"g", "p", "t", "-", "i", "m", "a", "g", "e">>
PatTtsDash == <<"t", "t", "s", "-">>
PatTts == <<"t", "t", "s">>
PatWhisper == <<"w", "h", "i", "s", "p", "e", "r">>
PatTranscribe == <<"t", "r", "a", "n", "s", "c", "r", "i", "b", "e">>

\* Segments of model identifiers.
Segments ==
    {<<"d", "a", "l", "l", "-", "e">>,
     <<"g", "p", "t", "-", "i", "m", "a", "g", "e">>,
     <<"t", "t", "s">>,
     <<"w", "h", "i", "s", "p", "e", "r">>,
     <<"t", "r", "a", "n", "s", "c", "r", "i", "b", "e">>,
     <<"g", "p", "t", "-", "4", "o">>,
     <<"D", "A", "L", "L", "-", "E">>,
     <<"W", "h", "i", "s", "p", "e", "r">>,
     <<"t">>,
     <<"t", "s">>,
     <<"-", "1">>}

\* The model names the plugin declares or defines.
DeclaredModels ==
    {<<"d", "a", "l", "l", "-", "e", "-", "2">>,
     <<"d", "a", "l", "l", "-", "e", "-", "3">>,
     <<"g", "p", "t", "-", "i", "m", "a", "g", "e", "-", "1">>,
     <<"t", "t", "s", "-", "1">>,
     <<"t", "t", "s", "-", "1", "-", "h", "d">>,
     <<"g", "p", "t", "-", "4", "o", "-", "m", "i", "n", "i", "-", "t", "t", "s">>,
     <<"w", "h", "i", "s", "p", "e", "r", "-", "1">>,
     <<"g", "p", "t", "-", "4", "o", "-", "m", "i", "n", "i", "-", "t", "r", "a", "n", "s", "c", "r", "i", "b", "e">>,
     <<"g", "p", "t", "-", "4", "o", "-", "t", "r", "a", "n", "s", "c", "r", "i", "b", "e">>,
     <<"g", "p", "t", "-", "4", "o", "-", "t", "r", "a", "n", "s", "c", "r", "i", "b", "e", "-", "d", "i", "a", "r", "i", "z", "e">>,
     <<"g", "p", "t", "-", "5">>,
     <<"g", "p", "t", "-", "3", "5", "-", "t", "u", "r", "b", "o">>,
     <<"t", "e", "x", "t", "-", "e", "m", "b", "e", "d", "d", "i", "n", "g", "-", "a", "d", "a", "-", "0", "0", "2">>}

\* The model identifiers of the requests.
ModelNames ==
    DeclaredModels \cup {Flatten(q) : q \in SeqUpTo(Segments, MaxSegments)}

\* A dispatch that looks for the speech models before the image models.
RouteSpeechFirst(name, cb) ==
    LET modelLower == ToLower(name)
    IN  IF Contains(modelLower, PatTtsDash) \/ Contains(modelLower, PatTts)
        THEN "generateSpeech"
        ELSE IF Contains(modelLower, PatDallE) \/ Contains(modelLower, PatGptImage)
        THEN "generateImages"
        ELSE IF Contains(modelLower, PatWhisper)
                \/ Contains(modelLower, PatTranscribe)
        THEN "transcribeAudioFromRequest"
        ELSE IF cb THEN "generateTextStream" ELSE "generateTextSync"

\* The function generateText hands the request to.
Route(name, cb) ==
    LET modelLower == ToLower(name)
    IN  IF Contains(modelLower, PatDallE) \/ Contains(modelLower, PatGptImage)
        THEN "generateImages"
        ELSE IF Contains(modelLower, PatTtsDash) \/ Contains(modelLower, PatTts)
        THEN "generateSpeech"
        ELSE IF Contains(modelLower, PatWhisper)
                \/ Contains(modelLower, PatTranscribe)
        THEN "transcribeAudioFromRequest"
        ELSE IF cb THEN "generateTextStream" ELSE "generateTextSync"

\* A dispatch that hands the callback to whichever function it calls.
HandsCallbackToAll(h, cb) == cb

\* Whether the call of the handler passes cb: only generateTextStream takes
\* it, and it is called only when cb is not nil.
HandsCallback(h, cb) == h = "generateTextStream"

RouteInit ==
    /\ routePc = "idle"
    /\ modelName = <<>>
    /\ cbSupplied = FALSE
    /\ handler = ""
    /\ cbHanded = FALSE
    /\ sinkInvoked = FALSE

\* generateText is called with a model identifier and, or not, a callback,
\* and calls the handler, which can invoke the callback if it was handed it.
GenerateText ==
    /\ routePc = "idle"
    /\ \E name \in ModelNames, cb \in BOOLEAN :
          /\ modelName' = name
          /\ cbSupplied' = cb
          /\ handler' = Route(name, cb)
          /\ cbHanded' = HandsCallback(Route(name, cb), cb)
          /\ \E invoked \in BOOLEAN :
                sinkInvoked' = (invoked /\ cbHanded')
    /\ routePc' = "routed"

-----------------------------------------------------------------------------
(* The plugin and transcribeAudioFromRequest *)

\* A media string is a sequence of tokens: the scheme, the media type, the
\* marker "base64," and the base64 payload in groups of four characters.
Marker == "base64,"

\* base64.StdEncoding on one group of four characters: the bytes it decodes
\* to, or no entry for a group that is not base64.
Base64Groups ==
    [g \in {"QQ==", "QkM="} |-> IF g = "QQ==" THEN <<"A">> ELSE <<"B", "C">>]

\* base64.StdEncoding.DecodeString
RECURSIVE DecodeString(_)
DecodeString(groups) ==
    IF groups = <<>> THEN [ok |-> TRUE, bytes |-> <<>>]
    ELSE LET rest == DecodeString(Tail(groups))
         IN  IF Head(groups) \notin DOMAIN Base64Groups \/ ~rest.ok
             THEN [ok |-> FALSE, bytes |-> <<>>]
             ELSE [ok |-> TRUE, bytes |-> Base64Groups[Head(groups)] \o rest.bytes]

\* strings.Index(mediaText, "base64,"): the position of the marker, 0 if none.
MarkerIndex(mediaText) ==
    IF \E k \in DOMAIN mediaText : mediaText[k] = Marker
    THEN CHOOSE k \in DOMAIN mediaText :
            /\ mediaText[k] = Marker
            /\ \A j \in 1..(k - 1) : mediaText[j] # Marker
    ELSE 0

\* The file name chosen from the media type of the string.
FilenameFor(mediaText) ==
    IF \E k \in DOMAIN mediaText : mediaText[k] \in {"audio/mp3", "audio/mpeg"}
    THEN "audio.mp3"
    ELSE IF \E k \in DOMAIN mediaText : mediaText[k] = "audio/wav"
    THEN "audio.wav"
    ELSE IF \E k \in DOMAIN mediaText : mediaText[k] = "audio/opus"
    THEN "audio.opus"
    ELSE "audio.mp3"

TextPart(s) == [type |-> "text", text |-> s]

MediaPart(s) == [type |-> "media", text |-> s]

\* The parts of the messages of a transcription request.
SttParts ==
    {TextPart(<<"h", "i">>),
     MediaPart(<<"https://x/a.wav">>),
     MediaPart(<<"data:", "audio/wav", ";", Marker, "QQ==">>),
     MediaPart(<<"data:", "audio/mpeg", ";", Marker, "QkM=", "QQ==">>),
     MediaPart(<<"data:", "audio/wav", ";", Marker, "!!!!">>),
     MediaPart(<<"data:", "audio/opus", ";", Marker>>)}

\* msg.Content: no part, one part or two.
SttMessages ==
    {<<>>} \cup {<<p>> : p \in SttParts} \cup {<<p, q>> : p, q \in SttParts}

\* Loops that keep the first audio they decode.
RECURSIVE ExtractFirstAudio(_, _, _)
ExtractFirstAudio(parts, audioData, filename) ==
    IF parts = <<>>
    THEN [ok |-> TRUE, audioData |-> audioData, filename |-> filename]
    ELSE LET part == Head(parts)
             idx == MarkerIndex(part.text)
             dec == DecodeString(SubSeq(part.text, idx + 1, Len(part.text)))
         IN  IF part.type = "media" /\ idx # 0
             THEN IF ~dec.ok
                  THEN [ok |-> FALSE, audioData |-> <<>>, filename |-> ""]
                  ELSE IF audioData # <<>>
                  THEN ExtractFirstAudio(Tail(parts), audioData, filename)
                  ELSE ExtractFirstAudio(Tail(parts), dec.bytes,
                                         FilenameFor(part.text))
             ELSE ExtractFirstAudio(Tail(parts), audioData, filename)

\* The two nested loops of transcribeAudioFromRequest over the parts, in
\* message and part order: the audio and file name they end with, or the
\* decode failure that returns at once.
RECURSIVE ExtractAudio(_, _, _)
ExtractAudio(parts, audioData, filename) ==
    IF parts = <<>>
    THEN [ok |-> TRUE, audioData |-> audioData, filename |-> filename]
    ELSE LET part == Head(parts)
             idx == MarkerIndex(part.text)
             dec == DecodeString(SubSeq(part.text, idx + 1, Len(part.text)))
         IN  IF part.type = "media" /\ idx # 0
             THEN IF ~dec.ok
                  THEN [ok |-> FALSE, audioData |-> <<>>, filename |-> ""]
                  ELSE ExtractAudio(Tail(parts), dec.bytes, FilenameFor(part.text))
             ELSE ExtractAudio(Tail(parts), audioData, filename)

NoFile == [audio |-> <<>>, name |-> ""]

\* What a transcription request does: its result, whether it called the
\* vendor and with which file. vendor is the outcome of the vendor call: an
\* error, or the transcript resp.Text.
Transcription(res, called, file) ==
    [result |-> res, called |-> called, file |-> file]

\* transcribeAudioInternal
transcribeAudioInternal(isInitted, audioData, filename, vendor) ==
    IF ~isInitted
    THEN Transcription(Failure("azureaifoundry: client not initialized"),
                       FALSE, NoFile)
    ELSE LET file == [audio |-> audioData,
                      name |-> IF filename = "" THEN "audio.mp3" ELSE filename]
         IN  IF vendor.err
             THEN Transcription(Failure("audio transcription failed"), TRUE, file)
             ELSE Transcription(
                      Response(<<NewTextPart(vendor.text)>>, "stop", NoUsage),
                      TRUE, file)

\* A request that sends whatever audio it found, none included.
transcribeWithoutAudioCheck(isInitted, messages, vendor) ==
    LET found == ExtractAudio(Flatten(messages), <<>>, "")
    IN  IF ~found.ok
        THEN Transcription(Failure("failed to decode audio"), FALSE, NoFile)
        ELSE transcribeAudioInternal(isInitted, found.audioData,
                                     found.filename, vendor)

\* transcribeAudioFromRequest
transcribeAudioFromRequest(isInitted, messages, vendor) ==
    LET found == ExtractAudio(Flatten(messages), <<>>, "")
    IN  IF ~found.ok
        THEN Transcription(Failure("failed to decode audio"), FALSE, NoFile)
        ELSE IF Len(found.audioData) = 0
        THEN Transcription(Failure("no audio data found in request"),
                           FALSE, NoFile)
        ELSE transcribeAudioInternal(isInitted, found.audioData,
                                     found.filename, vendor)

\* The outcomes of client.Audio.Transcriptions.New: an error or a transcript.
VendorTranscripts ==
    {[err |-> TRUE, text |-> <<>>],
     [err |-> FALSE, text |-> <<>>],
     [err |-> FALSE, text |-> <<"o", "k">>]}

SttInit ==
    /\ initted = FALSE
    /\ sttPc = "idle"
    /\ sttInput = <<>>
    /\ sttResult = NoResult
    /\ vendorCalls = 0
    /\ vendorFile = NoFile

\* Init creates the client and sets a.initted.
PluginInit ==
    /\ ~initted
    /\ initted' = TRUE
    /\ UNCHANGED <<sttPc, sttInput, sttResult, vendorCalls, vendorFile>>

\* A request routed to transcribeAudioFromRequest runs to its return.
Transcribe ==
    /\ sttPc = "idle"
    /\ \E messages \in SeqUpTo(SttMessages, MaxMessages),
          vendor \in VendorTranscripts :
          LET t == transcribeAudioFromRequest(initted, messages, vendor)
          IN  /\ sttInput' = messages
              /\ sttResult' = t.result
              /\ vendorCalls' = vendorCalls + (IF t.called THEN 1 ELSE 0)
              /\ vendorFile' = IF t.called THEN t.file ELSE vendorFile
    /\ sttPc' = "done"
    /\ UNCHANGED initted

-----------------------------------------------------------------------------
(* convertMessagesToOpenAI *)

\* Values a tool request's Input or a tool response's Output may hold: nil,
\* an empty map, a map with one member, and a value encoding/json refuses
\* (a channel, a function, a NaN).
GoValues == {"nil", "map", "mapq", "chan"}

\* json.Marshal(v)
JSONMarshal(v) ==
    CASE v = "nil" -> [ok |-> TRUE, json |-> <<"null">>]
      [] v = "map" -> [ok |-> TRUE, json |-> <<"{", "}">>]
      [] v = "mapq" -> [ok |-> TRUE, json |-> <<"{", "q", "}">>]
      [] OTHER -> [ok |-> FALSE, json |-> <<>>]

\* A call id that leaves the name out.
CallIdWithoutName(name) == <<"c", "a", "l", "l", "_">>

\* fmt.Sprintf("call_%s", name)
CallId(name) == <<"c", "a", "l", "l", "_">> \o name

\* The parts of an ai.Message: Text is the text of a text part and the URL of
\* a media part; a tool request has a name and an Input, a tool response a
\* name and an Output.
MsgTextPart(s) == [kind |-> "text", text |-> s, name |-> <<>>, value |-> "nil"]

MsgMediaPart(s) == [kind |-> "media", text |-> s, name |-> <<>>, value |-> "nil"]

MsgToolRequest(n, v) ==
    [kind |-> "toolRequest", text |-> <<>>, name |-> n, value |-> v]

MsgToolResponse(n, v) ==
    [kind |-> "toolResponse", text |-> <<>>, name |-> n, value |-> v]

MsgParts ==
    {MsgTextPart(<<"a">>), MsgTextPart(<<"b">>), MsgMediaPart(<<"u">>),
     MsgToolRequest(<<"f">>, "map"), MsgToolRequest(<<"g">>, "mapq"),
     MsgToolRequest(<<"f">>, "chan"),
     MsgToolResponse(<<"f">>, "map"), MsgToolResponse(<<"g">>, "nil"),
     MsgToolResponse(<<"g">>, "chan")}

\* msg.Content: no part, one part or two.
MsgContents ==
    {<<>>} \cup {<<p>> : p \in MsgParts} \cup {<<p, q>> : p, q \in MsgParts}

MsgRoles == {"system", "user", "model", "tool"}

\* The messages of a request.
Messages == [role : MsgRoles, content : MsgContents]

NoMessage == [role |-> "", content |-> <<>>]

\* The entries of the vendor request: a system or user entry with string
\* content, a user entry with an array of content parts, an assistant entry
\* with string content and tool calls, a tool entry with string content and
\* the id of the call it answers.
Entry(role, form, text, parts, calls, id) ==
    [role |-> role, form |-> form, text |-> text, parts |-> parts,
     toolCalls |-> calls, toolCallID |-> id]

\* hasMultimodalContent
hasMultimodalContent(m) ==
    LET hasText == \E k \in DOMAIN m.content : m.content[k].kind = "text"
        hasMedia == \E k \in DOMAIN m.content : m.content[k].kind = "media"
    IN  hasMedia \/ (hasText /\ Len(m.content) > 1)

\* The loop over msg.Content of a multimodal user message: a text fragment
\* per text part and an image-URL fragment per media part, in part order.
RECURSIVE contentParts(_)
contentParts(content) ==
    IF content = <<>> THEN <<>>
    ELSE LET part == Head(content)
             rest == contentParts(Tail(content))
         IN  IF part.kind = "text"
             THEN <<[type |-> "text", text |-> part.text]>> \o rest
             ELSE IF part.kind = "media"
             THEN <<[type |-> "image_url", text |-> part.text]>> \o rest
             ELSE rest

\* textContent of a model message: its text parts, joined in part order.
RECURSIVE textContent(_)
textContent(content) ==
    IF content = <<>> THEN <<>>
    ELSE (IF Head(content).kind = "text" THEN Head(content).text ELSE <<>>)
             \o textContent(Tail(content))

\* A collection of tool calls that ends at the first Input that does not
\* encode.
RECURSIVE toolCallsUntilFailure(_)
toolCallsUntilFailure(content) ==
    IF content = <<>> THEN <<>>
    ELSE LET part == Head(content)
             argsJSON == JSONMarshal(part.value)
         IN  IF part.kind # "toolRequest"
             THEN toolCallsUntilFailure(Tail(content))
             ELSE IF ~argsJSON.ok THEN <<>>
             ELSE <<[id |-> CallId(part.name), name |-> part.name,
                     arguments |-> argsJSON.json]>>
                      \o toolCallsUntilFailure(Tail(content))

\* toolCalls of a model message: one function call per tool request whose
\* Input encodes, in part order.
RECURSIVE toolCalls(_)
toolCalls(content) ==
    IF content = <<>> THEN <<>>
    ELSE LET part == Head(content)
             argsJSON == JSONMarshal(part.value)
             rest == toolCalls(Tail(content))
         IN  IF part.kind = "toolRequest" /\ argsJSON.ok
             THEN <<[id |-> CallId(part.name), name |-> part.name,
                     arguments |-> argsJSON.json]>> \o rest
             ELSE rest

\* The loop over msg.Content of a tool message: one tool entry per tool
\* response whose Output encodes, in part order.
RECURSIVE toolEntries(_)
toolEntries(content) ==
    IF content = <<>> THEN <<>>
    ELSE LET part == Head(content)
             outputJSON == JSONMarshal(part.value)
             rest == toolEntries(Tail(content))
         IN  IF part.kind = "toolResponse" /\ outputJSON.ok
             THEN <<Entry("tool", "string", outputJSON.json, <<>>, <<>>,
                          CallId(part.name))>> \o rest
             ELSE rest

\* One pass of the loop of convertMessagesToOpenAI: what it appends to
\* openAIMessages for the message m.
convertMessage(m) ==
    IF Len(m.content) = 0 THEN <<>>
    ELSE CASE m.role = "system" ->
                  <<Entry("system", "string", m.content[1].text, <<>>, <<>>,
                          <<>>)>>
           [] m.role = "user" ->
                  IF hasMultimodalContent(m)
                  THEN <<Entry("user", "array", <<>>, contentParts(m.content),
                               <<>>, <<>>)>>
                  ELSE <<Entry("user", "string", m.content[1].text, <<>>,
                               <<>>, <<>>)>>
           [] m.role = "model" ->
                  <<Entry("assistant", "string", textContent(m.content),
                          <<>>, toolCalls(m.content), <<>>)>>
           [] m.role = "tool" -> toolEntries(m.content)
           [] OTHER -> <<>>

\* The name and call id of the tool calls of the entries es.
RequestIdsOf(es) ==
    UNION {{[name |-> es[k].toolCalls[j].name, id |-> es[k].toolCalls[j].id] :
               j \in DOMAIN es[k].toolCalls} : k \in DOMAIN es}

MsgInit ==
    /\ nMessages = 0
    /\ msg = NoMessage
    /\ appended = <<>>
    /\ nOpenAI = 0
    /\ requestIds = {}

\* One pass of the loop over input.Messages.
NextMessage ==
    /\ nMessages < MaxMessages
    /\ \E m \in Messages :
          /\ msg' = m
          /\ appended' = convertMessage(m)
          /\ nOpenAI' = nOpenAI + Len(appended')
          /\ requestIds' = requestIds \cup RequestIdsOf(appended')
    /\ nMessages' = nMessages + 1

-----------------------------------------------------------------------------
(* input.Config: extractConfigFromRequest, buildChatCompletionParams and the
   requests of generateImages, generateSpeech and transcribeAudioFromRequest *)

\* The values of a config map, with their dynamic type; Absent stands for a
\* key the map does not have.
Absent == [type |-> "absent", val |-> ""]

IntValue(v) == [type |-> "int", val |-> v]

FloatValue(v) == [type |-> "float64", val |-> v]

StringValue(v) == [type |-> "string", val |-> v]

ConfigValues == {Absent, IntValue("42"), FloatValue("0.5"), StringValue("hd")}

ToolChoiceValues ==
    ConfigValues \cup
        {StringValue("auto"), StringValue("required"), StringValue("none")}

\* input.Config: nil, a value that is not a map[string]interface{}, or a map.
NilConfig == [form |-> "nil", entries |-> <<>>]

StructConfig == [form |-> "struct", entries |-> <<>>]

MapConfig(entries) == [form |-> "map", entries |-> entries]

\* v, ok := configMap[key].(type): the value, when input.Config is a map that
\* has the key with a value of the type.
Asserts(cfg, key, type) ==
    /\ cfg.form = "map"
    /\ key \in DOMAIN cfg.entries
    /\ cfg.entries[key].type = type

\* A field of a request: the value of the key when it has the type, the
\* default otherwise.
Override(cfg, key, type, default) ==
    IF Asserts(cfg, key, type) THEN cfg.entries[key].val ELSE default

\* A pointer field of modelConfig: nil, or the value of the key.
Pointer(cfg, key, type) ==
    IF Asserts(cfg, key, type)
    THEN [set |-> TRUE, val |-> cfg.entries[key].val]
    ELSE [set |-> FALSE, val |-> ""]

\* extractConfigFromRequest
extractConfigFromRequest(cfg) ==
    [maxTokens |-> Pointer(cfg, "maxOutputTokens", "int"),
     temperature |-> Pointer(cfg, "temperature", "float64"),
     topP |-> Pointer(cfg, "topP", "float64"),
     toolChoice |-> Override(cfg, "toolChoice", "string", "")]

\* A switch that takes any string for a policy.
toolChoiceAnyString(choice) == choice

\* The switch on config.toolChoice: the policy set, "" for none.
toolChoicePolicy(choice) ==
    IF choice \in {"auto", "required", "none"} THEN choice ELSE ""

\* buildChatCompletionParams, the messages apart.
buildChatCompletionParams(cfg, toolNames) ==
    LET c == extractConfigFromRequest(cfg)
    IN  [MaxTokens |-> c.maxTokens,
         Temperature |-> c.temperature,
         TopP |-> c.topP,
         Tools |-> toolNames,
         ToolChoice |-> IF Len(toolNames) > 0
                        THEN toolChoicePolicy(c.toolChoice) ELSE ""]

\* An image request whose quality is taken whatever its type.
imageRequestAnyQuality(cfg) ==
    [N |-> Override(cfg, "n", "int", "1"),
     Size |-> Override(cfg, "size", "string", "1024x1024"),
     Quality |-> IF cfg.form = "map" /\ cfg.entries["quality"] # Absent
                 THEN cfg.entries["quality"].val ELSE "standard",
     Style |-> Override(cfg, "style", "string", "vivid"),
     ResponseFormat |-> Override(cfg, "response_format", "string", "url")]

\* The ImageGenerationRequest of generateImages, the prompt apart.
imageRequest(cfg) ==
    [N |-> Override(cfg, "n", "int", "1"),
     Size |-> Override(cfg, "size", "string", "1024x1024"),
     Quality |-> Override(cfg, "quality", "string", "standard"),
     Style |-> Override(cfg, "style", "string", "vivid"),
     ResponseFormat |-> Override(cfg, "response_format", "string", "url")]

\* The TTSRequest of generateSpeech, the input text apart.
ttsRequest(cfg) ==
    [Voice |-> Override(cfg, "voice", "string", "alloy"),
     ResponseFormat |-> Override(cfg, "response_format", "string", "mp3"),
     Speed |-> Override(cfg, "speed", "float64", "1.0")]

\* The STTRequest of transcribeAudioFromRequest, the audio apart.
sttRequest(cfg) ==
    [Language |-> Override(cfg, "language", "string", ""),
     Prompt |-> Override(cfg, "prompt", "string", ""),
     ResponseFormat |-> Override(cfg, "response_format", "string", "json"),
     Temperature |-> Override(cfg, "temperature", "float64", "0")]

\* The configs of the requests; "seed" is a key no request knows.
ChatConfigs ==
    {NilConfig, StructConfig} \cup
    {MapConfig(e) : e \in [maxOutputTokens : ConfigValues,
                           temperature : ConfigValues, topP : ConfigValues,
                           toolChoice : ToolChoiceValues,
                           seed : ConfigValues]}

ImageConfigs ==
    {NilConfig, StructConfig} \cup
    {MapConfig(e) : e \in [n : ConfigValues, size : ConfigValues,
                           quality : ConfigValues, style : ConfigValues,
                           response_format : ConfigValues,
                           seed : ConfigValues]}

SpeechConfigs ==
    {NilConfig, StructConfig} \cup
    {MapConfig(e) : e \in [voice : ConfigValues,
                           response_format : ConfigValues,
                           speed : ConfigValues, seed : ConfigValues]}

SttConfigs ==
    {NilConfig, StructConfig} \cup
    {MapConfig(e) : e \in [language : ConfigValues, prompt : ConfigValues,
                           response_format : ConfigValues,
                           temperature : ConfigValues, seed : ConfigValues]}

\* input.Tools, by name.
ToolLists == {<<>>, <<"f">>, <<"f", "g">>}

CfgInit ==
    /\ reqKind = ""
    /\ config = NilConfig
    /\ inputTools = <<>>
    /\ built = <<>>

\* generateText builds the params of a chat request.
BuildChatParams ==
    /\ reqKind = ""
    /\ \E cfg \in ChatConfigs, ts \in ToolLists :
          /\ config' = cfg
          /\ inputTools' = ts
          /\ built' = buildChatCompletionParams(cfg, ts)
    /\ reqKind' = "chat"

\* generateImages builds its request.
BuildImageRequest ==
    /\ reqKind = ""
    /\ \E cfg \in ImageConfigs :
          /\ config' = cfg
          /\ built' = imageRequest(cfg)
    /\ reqKind' = "image"
    /\ UNCHANGED inputTools

\* generateSpeech builds its request.
BuildTTSRequest ==
    /\ reqKind = ""
    /\ \E cfg \in SpeechConfigs :
          /\ config' = cfg
          /\ built' = ttsRequest(cfg)
    /\ reqKind' = "speech"
    /\ UNCHANGED inputTools

\* transcribeAudioFromRequest builds its request.
BuildSTTRequest ==
    /\ reqKind = ""
    /\ \E cfg \in SttConfigs :
          /\ config' = cfg
          /\ built' = sttRequest(cfg)
    /\ reqKind' = "stt"
    /\ UNCHANGED inputTools

-----------------------------------------------------------------------------
(* generateImages and generateSpeech *)

\* The text parts of the messages of a request, joined in message and part
\* order: the prompt of generateImages and the input text of generateSpeech.
promptOf(messages) ==
    textContent(Flatten([k \in DOMAIN messages |-> messages[k].content]))

\* input.Messages of an image or a speech request.
ModalMessages ==
    {<<>>,
     <<[role |-> "user", content |-> <<MsgTextPart(<<"a">>)>>]>>,
     <<[role |-> "system",
        content |-> <<MsgTextPart(<<"b">>), MsgMediaPart(<<"u">>)>>],
       [role |-> "user", content |-> <<MsgTextPart(<<"a">>)>>]>>}

\* input.Config of an image or a speech request.
ModalConfigs ==
    {NilConfig,
     MapConfig([n |-> IntValue("42"), size |-> Absent,
                quality |-> StringValue("hd"), style |-> Absent,
                response_format |-> StringValue("hd"),
                voice |-> StringValue("hd"), speed |-> IntValue("42"),
                seed |-> FloatValue("0.5")])}

\* resp.Data[k] of client.Images.Generate
VendorImages ==
    {[URL |-> <<"u", "1">>, B64JSON |-> <<>>],
     [URL |-> <<>>, B64JSON |-> <<"Q", "Q", "=", "=">>],
     [URL |-> <<"u", "2">>, B64JSON |-> <<"Q", "k", "M", "=">>],
     [URL |-> <<>>, B64JSON |-> <<>>]}

\* The outcomes of client.Images.Generate: an error, or no image, one or two.
ImageOutcomes ==
    {[err |-> TRUE, data |-> <<>>]} \cup
    {[err |-> FALSE, data |-> d] :
        d \in {<<>>} \cup {<<i>> : i \in VendorImages}
                     \cup {<<i, j>> : i, j \in VendorImages}}

\* The outcomes of client.Audio.Speech.New and of reading and closing the
\* body it returns.
Audios == {<<>>, <<"A">>, <<"B", "C">>, <<"A", "B", "C">>}

SpeechOutcomes ==
    [err : BOOLEAN, readErr : BOOLEAN, closeErr : BOOLEAN, audio : Audios]

\* base64.StdEncoding.EncodeToString on one, two or three bytes.
EncodeToString(bytes) ==
    CASE bytes = <<>> -> <<>>
      [] bytes = <<"A">> -> <<"Q", "Q", "=", "=">>
      [] bytes = <<"B", "C">> -> <<"Q", "k", "M", "=">>
      [] bytes = <<"A", "B", "C">> -> <<"Q", "U", "J", "D">>

NoParams == [model |-> <<>>, input |-> <<>>, req |-> <<>>]

\* What an image or speech request does: its result, whether it called the
\* vendor and with which params.
Outcome(res, called, params) ==
    [result |-> res, called |-> called, params |-> params]

\* A conversion that keeps only the images that have a URL.
RECURSIVE imagePartsURLOnly(_)
imagePartsURLOnly(images) ==
    IF images = <<>> THEN <<>>
    ELSE LET img == Head(images)
             rest == imagePartsURLOnly(Tail(images))
         IN  IF img.URL # <<>> THEN <<NewTextPart(img.URL)>> \o rest
             ELSE rest

\* The loop of generateImages over resp.Images: a text part holding the URL
\* of the image, or else its base64 payload, or nothing when it has neither.
RECURSIVE imageParts(_)
imageParts(images) ==
    IF images = <<>> THEN <<>>
    ELSE LET img == Head(images)
             rest == imageParts(Tail(images))
         IN  IF img.URL # <<>> THEN <<NewTextPart(img.URL)>> \o rest
             ELSE IF img.B64JSON # <<>>
             THEN <<NewTextPart(img.B64JSON)>> \o rest
             ELSE rest

\* generateImages, generateImagesInternal included.
generateImages(isInitted, name, messages, cfg, vendor) ==
    LET params == [model |-> name, input |-> promptOf(messages),
                   req |-> imageRequest(cfg)]
    IN  IF ~isInitted
        THEN Outcome(Failure("azureaifoundry: client not initialized"),
                     FALSE, NoParams)
        ELSE IF vendor.err
        THEN Outcome(Failure("image generation failed"), TRUE, params)
        ELSE Outcome(Response(imageParts(vendor.data), "stop", NoUsage),
                     TRUE, params)

\* generateSpeech, generateSpeechInternal included.
generateSpeech(isInitted, name, messages, cfg, vendor) ==
    LET params == [model |-> name, input |-> promptOf(messages),
                   req |-> ttsRequest(cfg)]
    IN  IF ~isInitted
        THEN Outcome(Failure("azureaifoundry: client not initialized"),
                     FALSE, NoParams)
        ELSE IF vendor.err
        THEN Outcome(Failure("speech generation failed"), TRUE, params)
        ELSE IF vendor.closeErr
        THEN Outcome(Failure("failed to close response body"), TRUE, params)
        ELSE IF vendor.readErr
        THEN Outcome(Failure("failed to read audio data"), TRUE, params)
        ELSE Outcome(Response(<<NewTextPart(EncodeToString(vendor.audio))>>,
                              "stop", NoUsage),
                     TRUE, params)

ModalInit ==
    /\ modalPc = "idle"
    /\ modalKind = ""
    /\ modalResult = NoResult
    /\ modalCalls = 0
    /\ modalParams = NoParams
    /\ vendorData = <<>>

\* A request routed to generateImages runs to its return.
GenerateImages ==
    /\ modalPc = "idle"
    /\ \E messages \in ModalMessages, cfg \in ModalConfigs,
          vendor \in ImageOutcomes :
          LET o == generateImages(initted, PatDallE, messages, cfg, vendor)
          IN  /\ modalResult' = o.result
              /\ modalCalls' = modalCalls + (IF o.called THEN 1 ELSE 0)
              /\ modalParams' = o.params
              /\ vendorData' = IF o.called THEN vendor.data ELSE <<>>
    /\ modalKind' = "generateImages"
    /\ modalPc' = "done"

\* A request routed to generateSpeech runs to its return.
GenerateSpeech ==
    /\ modalPc = "idle"
    /\ \E messages \in ModalMessages, cfg \in ModalConfigs,
          vendor \in SpeechOutcomes :
          LET o == generateSpeech(initted, PatTts, messages, cfg, vendor)
          IN  /\ modalResult' = o.result
              /\ modalCalls' = modalCalls + (IF o.called THEN 1 ELSE 0)
              /\ modalParams' = o.params
              /\ vendorData' = IF o.called THEN vendor.audio ELSE <<>>
    /\ modalKind' = "generateSpeech"
    /\ modalPc' = "done"

-----------------------------------------------------------------------------
(* The plugin's lock: Init, DefineModel, DefineEmbedder and the requests *)

\* Documents an embedding request holds at most.
MaxDocuments == 2

\* The functions that serve a request, by the way they reach a.client.
LockingKinds == {"generateImages", "generateSpeech", "transcribeAudio"}

ChatKinds == {"generateTextSync", "generateTextStream"}

RequestKinds == LockingKinds \cup ChatKinds \cup {"embed"}

\* The closure a request is served through.
ClosureOf(kind) == IF kind = "embed" THEN "embedder" ELSE "model"

\* The message the failure of the vendor call is wrapped in.
VendorFailureOf(kind) ==
    CASE kind = "generateTextSync" -> "chat completion failed"
      [] kind = "generateTextStream" -> "stream error"
      [] kind = "embed" -> "embedding generation failed"
      [] kind = "generateImages" -> "image generation failed"
      [] kind = "generateSpeech" -> "speech generation failed"
      [] kind = "transcribeAudio" -> "audio transcription failed"

Returned(what, err) == [what |-> what, err |-> err]

NotReturned == Returned("nothing", "")

NoRead == [by |-> "", locked |-> FALSE, clientAt |-> "", initAt |-> ""]

\* A read of a.client by a request: whether the request holds a.mu, what
\* the field held, and where the caller of Init was.
ReadBy(kind) ==
    [by |-> kind, locked |-> mu = "request", clientAt |-> client,
     initAt |-> initPc]

\* An Init that panics only for a missing endpoint.
panicsWithoutEndpointOnly(isInitted, endpointEmpty) == endpointEmpty

\* An Init that panics only if it was called before.
panicsIfInittedOnly(isInitted, endpointEmpty) == isInitted

\* Init panics if it was called before or if the endpoint is missing.
initPanics(isInitted, endpointEmpty) == isInitted \/ endpointEmpty

\* A request that issues the vendor call again after a failure.
retryOnVendorFailure(kind) ==
    [pc |-> "call", ret |-> NotReturned]

\* if err != nil { return nil, fmt.Errorf("...: %w", err) }
onVendorFailure(kind) ==
    [pc |-> "done", ret |-> Returned("failure", VendorFailureOf(kind))]

LockInit ==
    /\ mu = "free"
    /\ client = "zero"
    /\ endpoint = ""
    /\ initPc = "idle"
    /\ definePc = "idle"
    /\ defining = ""
    /\ registered = {}
    /\ rqPc = "idle"
    /\ rqKind = ""
    /\ rqDocs = 0
    /\ rqCalls = 0
    /\ rqFailed = FALSE
    /\ rqReturn = NotReturned
    /\ lastRead = NoRead

RequestUnchanged ==
    UNCHANGED <<rqPc, rqKind, rqDocs, rqCalls, rqFailed, rqReturn, lastRead>>

CallersUnchanged ==
    UNCHANGED <<client, endpoint, initted, initPc, definePc, defining,
                registered>>

\* Init: a.mu.Lock()
InitLock ==
    /\ initPc = "idle"
    /\ mu = "free"
    /\ mu' = "Init"
    /\ initPc' = "locked"
    /\ \E e \in {"", "set"} : endpoint' = e
    /\ UNCHANGED <<client, initted, definePc, defining, registered>>
    /\ RequestUnchanged

\* Init: the checks of a.initted and a.Endpoint; a panic runs the deferred
\* a.mu.Unlock().
InitCheck ==
    /\ initPc = "locked"
    /\ IF initPanics(initted, endpoint = "")
       THEN mu' = "free" /\ initPc' = "idle"
       ELSE mu' = mu /\ initPc' = "checked"
    /\ UNCHANGED <<client, endpoint, initted, definePc, defining, registered>>
    /\ RequestUnchanged

\* Init: a.client = openai.NewClient(opts...)
InitWriteClient ==
    /\ initPc = "checked"
    /\ client' = "set"
    /\ initPc' = "written"
    /\ UNCHANGED <<mu, endpoint, initted, definePc, defining, registered>>
    /\ RequestUnchanged

\* Init: a.initted = true
InitSetInitted ==
    /\ initPc = "written"
    /\ initted' = TRUE
    /\ initPc' = "stored"
    /\ UNCHANGED <<mu, client, endpoint, definePc, defining, registered>>
    /\ RequestUnchanged

\* Init: the return, which runs the deferred a.mu.Unlock()
InitUnlock ==
    /\ initPc = "stored"
    /\ mu' = "free"
    /\ initPc' = "idle"
    /\ UNCHANGED <<client, endpoint, initted, definePc, defining, registered>>
    /\ RequestUnchanged

\* DefineModel, DefineEmbedder: a.mu.Lock()
DefineLock ==
    /\ definePc = "idle"
    /\ mu = "free"
    /\ mu' = "Define"
    /\ definePc' = "locked"
    /\ \E what \in {"model", "embedder"} : defining' = what
    /\ UNCHANGED <<client, endpoint, initted, initPc, registered>>
    /\ RequestUnchanged

\* DefineModel, DefineEmbedder: the panic if Init was not called, or else
\* the registration of the closure; both run the deferred a.mu.Unlock().
DefineRegister ==
    /\ definePc = "locked"
    /\ registered' = IF initted THEN registered \cup {defining}
                     ELSE registered
    /\ mu' = "free"
    /\ definePc' = "idle"
    /\ defining' = ""
    /\ UNCHANGED <<client, endpoint, initted, initPc>>
    /\ RequestUnchanged

\* The registry calls a closure: a chat request without or with a stream
\* callback, a request of an image, speech or transcription model, or an
\* embedding request of some documents that have text. The handlers that
\* check a.initted themselves are methods of the plugin, which a caller may
\* also reach before any closure is registered.
RequestEnter ==
    /\ rqPc = "idle"
    /\ \E kind \in RequestKinds :
          /\ kind \in LockingKinds \/ ClosureOf(kind) \in registered
          /\ rqKind' = kind
          /\ \E n \in 0..MaxDocuments :
                rqDocs' = IF kind = "embed" THEN n ELSE 0
    /\ rqPc' = "entered"
    /\ rqCalls' = 0
    /\ rqFailed' = FALSE
    /\ rqReturn' = NotReturned
    /\ UNCHANGED <<mu, lastRead>>
    /\ CallersUnchanged

\* transcribeAudioFromRequest returns before transcribeAudioInternal if the
\* request holds no audio that decodes.
RequestRejected ==
    /\ rqPc = "entered"
    /\ rqKind = "transcribeAudio"
    /\ \E err \in {"no audio data found in request",
                   "failed to decode audio"} :
          rqReturn' = Returned("failure", err)
    /\ rqPc' = "done"
    /\ UNCHANGED <<mu, rqKind, rqDocs, rqCalls, rqFailed, lastRead>>
    /\ CallersUnchanged

\* generateImagesInternal, generateSpeechInternal, transcribeAudioInternal:
\* a.mu.Lock()
RequestLock ==
    /\ rqPc = "entered"
    /\ rqKind \in LockingKinds
    /\ mu = "free"
    /\ mu' = "request"
    /\ rqPc' = "locked"
    /\ UNCHANGED <<rqKind, rqDocs, rqCalls, rqFailed, rqReturn, lastRead>>
    /\ CallersUnchanged

\* The check of a.initted and, if it is set, client := a.client
RequestReadLocked ==
    /\ rqPc = "locked"
    /\ IF ~initted
       THEN /\ mu' = "free"
            /\ rqPc' = "done"
            /\ rqReturn' =
                  Returned("failure", "azureaifoundry: client not initialized")
            /\ UNCHANGED lastRead
       ELSE /\ lastRead' = ReadBy(rqKind)
            /\ rqPc' = "read"
            /\ UNCHANGED <<mu, rqReturn>>
    /\ UNCHANGED <<rqKind, rqDocs, rqCalls, rqFailed>>
    /\ CallersUnchanged

\* a.mu.Unlock() after the read
RequestUnlock ==
    /\ rqPc = "read"
    /\ mu' = "free"
    /\ rqPc' = "call"
    /\ UNCHANGED <<rqKind, rqDocs, rqCalls, rqFailed, rqReturn, lastRead>>
    /\ CallersUnchanged

\* generateTextSync, generateTextStream and embed evaluate a.client as the
\* receiver of the vendor call; embed does so for each document, and
\* returns when none is left.
RequestRead ==
    /\ rqPc = "entered"
    /\ rqKind \in ChatKinds \cup {"embed"}
    /\ IF rqKind = "embed" /\ rqDocs = 0
       THEN /\ rqPc' = "done"
            /\ rqReturn' = Returned("response", "")
            /\ UNCHANGED lastRead
       ELSE /\ lastRead' = ReadBy(rqKind)
            /\ rqPc' = "call"
            /\ UNCHANGED rqReturn
    /\ UNCHANGED <<mu, rqKind, rqDocs, rqCalls, rqFailed>>
    /\ CallersUnchanged

\* The vendor call. A call that fails ends the request, but a stream reports
\* the failure only when it is exhausted; a call that succeeds ends the
\* request, but for the next document of an embedding request, the stream
\* to consume and the audio body to read.
RequestVendorCall ==
    /\ rqPc = "call"
    /\ rqCalls' = rqCalls + 1
    /\ \E failed \in BOOLEAN :
          /\ rqFailed' = failed
          /\ IF rqKind = "generateTextStream"
             THEN rqPc' = "streaming" /\ UNCHANGED <<rqReturn, rqDocs>>
             ELSE IF failed
             THEN /\ rqPc' = onVendorFailure(rqKind).pc
                  /\ rqReturn' = onVendorFailure(rqKind).ret
                  /\ UNCHANGED rqDocs
             ELSE IF rqKind = "embed"
             THEN /\ rqPc' = "entered"
                  /\ rqDocs' = rqDocs - 1
                  /\ UNCHANGED rqReturn
             ELSE IF rqKind = "generateSpeech"
             THEN rqPc' = "body" /\ UNCHANGED <<rqReturn, rqDocs>>
             ELSE /\ rqPc' = "done"
                  /\ rqReturn' = Returned("response", "")
                  /\ UNCHANGED rqDocs
    /\ UNCHANGED <<mu, rqKind, lastRead>>
    /\ CallersUnchanged

\* generateTextStream after its loop: stream.Err(), and without it the
\* response, unless the callback or the tool calls failed.
RequestStreamEnd ==
    /\ rqPc = "streaming"
    /\ IF rqFailed
       THEN /\ rqPc' = onVendorFailure(rqKind).pc
            /\ rqReturn' = onVendorFailure(rqKind).ret
       ELSE /\ rqPc' = "done"
            /\ \E ret \in {Returned("response", ""),
                           Returned("failure", "streaming callback error"),
                           Returned("failure",
                                    "failed to convert tool calls")} :
                  rqReturn' = ret
    /\ UNCHANGED <<mu, rqKind, rqDocs, rqCalls, rqFailed, lastRead>>
    /\ CallersUnchanged

\* generateSpeechInternal reads and closes the body.
RequestReadBody ==
    /\ rqPc = "body"
    /\ \E ret \in {Returned("response", ""),
                   Returned("failure", "failed to close response body"),
                   Returned("failure", "failed to read audio data")} :
          rqReturn' = ret
    /\ rqPc' = "done"
    /\ UNCHANGED <<mu, rqKind, rqDocs, rqCalls, rqFailed, lastRead>>
    /\ CallersUnchanged

\* The request has returned; the registry may call a closure again.
RequestDone ==
    /\ rqPc = "done"
    /\ rqPc' = "idle"
    /\ UNCHANGED <<mu, rqKind, rqDocs, rqCalls, rqFailed, rqReturn, lastRead>>
    /\ CallersUnchanged

-----------------------------------------------------------------------------
(* The tool calls of one turn on the two chat paths *)

\* A tool call of the turn: choice.Message.ToolCalls[k] of the unary
\* response, and the deltas of slot k - 1 of the stream taken together.
PathCalls == [id : Ids, name : Names, arguments : ArgStrings]

\* The accumulators generateTextStream holds once the stream has delivered
\* the calls, call k in slot k - 1.
RECURSIVE Accumulated(_)
Accumulated(calls) ==
    IF calls = <<>> THEN <<>>
    ELSE LET n == Len(calls)
             call == calls[n]
         IN  AccumulateDelta(Accumulated(SubSeq(calls, 1, n - 1)),
                             [index |-> n - 1, id |-> call.id,
                              name |-> call.name,
                              arguments |-> call.arguments])

\* The unary response that carries the calls in its choice zero.
ResponseWith(calls) ==
    [choices |-> <<[content |-> <<>>, toolCalls |-> calls,
                    finishReason |-> "tool_calls"]>>,
     usage |-> [promptTokens |-> 0, completionTokens |-> 0, totalTokens |-> 0]]

PathInit ==
    /\ pathPc = "idle"
    /\ pathCalls = <<>>
    /\ viaStream = NoResult
    /\ viaSync = NoResult

\* The vendor answers a turn with some tool calls: the streaming path
\* accumulates them and converts its accumulators, the unary path converts
\* the response.
ConvertTurn ==
    /\ pathPc = "idle"
    /\ \E calls \in SeqUpTo(PathCalls, MaxToolCalls) :
          /\ pathCalls' = calls
          /\ \E order \in Orders(DOMAIN Accumulated(calls)) :
                viaStream' = Finish(FALSE, <<>>, Accumulated(calls), order)
          /\ viaSync' = convertResponse(ResponseWith(calls))
    /\ pathPc' = "done"

-----------------------------------------------------------------------------
(* embed *)

\* doc.Content of a document of an embedding request.
EmbedDocs ==
    {<<>>,
     <<MsgTextPart(<<"a">>)>>,
     <<MsgMediaPart(<<"u">>)>>,
     <<MsgTextPart(<<"a">>), MsgMediaPart(<<"u">>), MsgTextPart(<<"b">>)>>}

\* float32(val) for the float64 values the vendor returns: one that is a
\* float32 and one that is not.
Float32(val) == IF val = "0.1" THEN "0.100000001490116" ELSE val

\* The outcomes of a.client.Embeddings.New: an error, a response without
\* data, and a response whose data hold one vector or two.
EmbedOutcomes ==
    {[err |-> TRUE, data |-> <<>>],
     [err |-> FALSE, data |-> <<>>],
     [err |-> FALSE, data |-> <<<<"0.5", "0.1">>>>],
     [err |-> FALSE, data |-> <<<<"0.1">>, <<"0.5">>>>]}

NoEmbedding == [kind |-> "none", err |-> "", embeddings |-> <<>>]

\* A loop body that sends the text of every document, the empty one too.
embedDocumentAlways(doc, vendor) ==
    LET inputText == textContent(doc)
    IN  IF vendor.err
        THEN [called |-> TRUE, failed |-> TRUE, text |-> inputText,
              vectors |-> <<>>]
        ELSE [called |-> TRUE, failed |-> FALSE, text |-> inputText,
              vectors |->
                  IF Len(vendor.data) > 0
                  THEN <<[k \in DOMAIN vendor.data[1] |->
                             Float32(vendor.data[1][k])]>>
                  ELSE <<>>]

\* The body of the loop of embed for one document: whether it calls the
\* vendor, with which text, whether the call fails, and the vectors it
\* appends.
embedDocument(doc, vendor) ==
    LET inputText == textContent(doc)
    IN  IF inputText = <<>>
        THEN [called |-> FALSE, failed |-> FALSE, text |-> inputText,
              vectors |-> <<>>]
        ELSE IF vendor.err
        THEN [called |-> TRUE, failed |-> TRUE, text |-> inputText,
              vectors |-> <<>>]
        ELSE [called |-> TRUE, failed |-> FALSE, text |-> inputText,
              vectors |->
                  IF Len(vendor.data) > 0
                  THEN <<[k \in DOMAIN vendor.data[1] |->
                             Float32(vendor.data[1][k])]>>
                  ELSE <<>>]

EmbedInit ==
    /\ embedPc = "idle"
    /\ embedInput = <<>>
    /\ embedIndex = 0
    /\ embedSent = <<>>
    /\ embeddings = <<>>
    /\ embedOrigins = <<>>
    /\ embedResult = NoEmbedding

\* The registry calls the closure of DefineEmbedder with some documents.
EmbedRequest ==
    /\ embedPc = "idle"
    /\ \E docs \in SeqUpTo(EmbedDocs, MaxDocuments) : embedInput' = docs
    /\ embedIndex' = 1
    /\ embedPc' = "loop"
    /\ UNCHANGED <<embedSent, embeddings, embedOrigins, embedResult>>

\* One pass of the loop over req.Input.
EmbedDocument ==
    /\ embedPc = "loop"
    /\ embedIndex <= Len(embedInput)
    /\ \E vendor \in EmbedOutcomes :
          LET e == embedDocument(embedInput[embedIndex], vendor)
          IN  /\ embedSent' =
                    IF e.called
                    THEN Append(embedSent,
                                [doc |-> embedIndex, text |-> e.text])
                    ELSE embedSent
              /\ IF e.failed
                 THEN /\ embedResult' =
                            [kind |-> "err",
                             err |-> "embedding generation failed",
                             embeddings |-> <<>>]
                      /\ embedPc' = "done"
                      /\ UNCHANGED <<embeddings, embedOrigins>>
                 ELSE /\ embeddings' = embeddings \o e.vectors
                      /\ embedOrigins' =
                            embedOrigins \o [k \in DOMAIN e.vectors |->
                                                embedIndex]
                      /\ UNCHANGED <<embedResult, embedPc>>
    /\ embedIndex' = embedIndex + 1
    /\ UNCHANGED embedInput

\* return &ai.EmbedResponse{Embeddings: embeddings}, nil
EmbedReturn ==
    /\ embedPc = "loop"
    /\ embedIndex > Len(embedInput)
    /\ embedResult' = [kind |-> "ok", err |-> "", embeddings |-> embeddings]
    /\ embedPc' = "done"
    /\ UNCHANGED <<embedInput, embedIndex, embedSent, embeddings,
                   embedOrigins>>

-----------------------------------------------------------------------------
(* Specifications *)

Init ==
    /\ StreamInit /\ SyncInit /\ RouteInit /\ SttInit /\ MsgInit /\ CfgInit
    /\ ModalInit /\ LockInit /\ PathInit
    /\ EmbedInit

\* A streaming chat call.
Next ==
    /\ \/ \E c \in Chunks(MaxFragments), cbErr \in BOOLEAN : NextChunk(c, cbErr)
       \/ \E d \in Deltas : ToolCallDelta(d)
       \/ \E err \in BOOLEAN, order \in Orders(DOMAIN toolCallsMap) :
             \E report \in StreamReports : StreamEnd(err, order, report)
    /\ UNCHANGED <<syncVars, routeVars, sttVars, msgVars, cfgVars,
                 modalVars, lockVars, pathVars, embedVars>>

Spec == Init /\ [][Next]_vars

\* A unary chat call.
SyncNext ==
    /\ \/ SyncReturns
       \/ SyncFails
    /\ UNCHANGED <<streamVars, routeVars, sttVars, msgVars, cfgVars,
                 modalVars, lockVars, pathVars, embedVars>>

SpecSync == Init /\ [][SyncNext]_vars

\* The dispatch of a request by generateText.
RouteNext ==
    /\ GenerateText
    /\ UNCHANGED <<streamVars, syncVars, sttVars, msgVars, cfgVars,
                 modalVars, lockVars, pathVars, embedVars>>

SpecRoute == Init /\ [][RouteNext]_vars

\* The plugin and a transcription request.
SttNext ==
    /\ \/ PluginInit
       \/ Transcribe
    /\ UNCHANGED <<streamVars, syncVars, routeVars, msgVars, cfgVars,
                 modalVars, lockVars, pathVars, embedVars>>

SpecStt == Init /\ [][SttNext]_vars

\* The translation of the messages of a chat request.
MsgNext ==
    /\ NextMessage
    /\ UNCHANGED <<streamVars, syncVars, routeVars, sttVars, cfgVars,
                 modalVars, lockVars, pathVars, embedVars>>

SpecMsg == Init /\ [][MsgNext]_vars

\* The requests built from the config and the tools of a request.
CfgNext ==
    /\ \/ BuildChatParams
       \/ BuildImageRequest
       \/ BuildTTSRequest
       \/ BuildSTTRequest
    /\ UNCHANGED <<streamVars, syncVars, routeVars, sttVars, msgVars,
                 modalVars, lockVars, pathVars, embedVars>>

SpecCfg == Init /\ [][CfgNext]_vars

\* The plugin and one request of an image, speech or transcription model.
ModalNext ==
    \/ /\ PluginInit
       /\ UNCHANGED <<streamVars, syncVars, routeVars, msgVars, cfgVars,
                      modalVars, lockVars, pathVars, embedVars>>
    \/ /\ modalPc = "idle"
       /\ Transcribe
       /\ UNCHANGED <<streamVars, syncVars, routeVars, msgVars, cfgVars,
                      modalVars, lockVars, pathVars, embedVars>>
    \/ /\ sttPc = "idle"
       /\ \/ GenerateImages
          \/ GenerateSpeech
       /\ UNCHANGED <<streamVars, syncVars, routeVars, sttVars, msgVars,
                      cfgVars, lockVars, pathVars, embedVars>>

SpecModal == Init /\ [][ModalNext]_vars

\* What the callers of Init, DefineModel and DefineEmbedder and a request
\* leave alone.
LockFrame ==
    UNCHANGED <<streamVars, syncVars, routeVars, msgVars, cfgVars, modalVars,
                pathVars, embedVars, sttPc, sttInput, sttResult, vendorCalls, vendorFile>>

LockNext ==
    \/ InitLock /\ LockFrame
    \/ InitCheck /\ LockFrame
    \/ InitWriteClient /\ LockFrame
    \/ InitSetInitted /\ LockFrame
    \/ InitUnlock /\ LockFrame
    \/ DefineLock /\ LockFrame
    \/ DefineRegister /\ LockFrame
    \/ RequestEnter /\ LockFrame
    \/ RequestRejected /\ LockFrame
    \/ RequestLock /\ LockFrame
    \/ RequestReadLocked /\ LockFrame
    \/ RequestUnlock /\ LockFrame
    \/ RequestRead /\ LockFrame
    \/ RequestVendorCall /\ LockFrame
    \/ RequestStreamEnd /\ LockFrame
    \/ RequestReadBody /\ LockFrame
    \/ RequestDone /\ LockFrame

SpecLock == Init /\ [][LockNext]_vars

\* One turn of tool calls on both chat paths.
PathNext ==
    /\ ConvertTurn
    /\ UNCHANGED <<streamVars, syncVars, routeVars, sttVars, msgVars, cfgVars,
                   modalVars, lockVars, embedVars>>

SpecPath == Init /\ [][PathNext]_vars

\* What an embedding request leaves alone.
EmbedFrame ==
    UNCHANGED <<streamVars, syncVars, routeVars, sttVars, msgVars, cfgVars,
                modalVars, lockVars, pathVars>>

EmbedNext ==
    \/ EmbedRequest /\ EmbedFrame
    \/ EmbedDocument /\ EmbedFrame
    \/ EmbedReturn /\ EmbedFrame

SpecEmbed == Init /\ [][EmbedNext]_vars

-----------------------------------------------------------------------------
(* The streaming call: claims C1 to C4 and C6 to C8 *)

\* The texts of the text fragments of a content, in order.
TextsOf(content) ==
    LET texts == SelectSeq(content, LAMBDA p : p.type = "text")
    IN  [k \in DOMAIN texts |-> texts[k].text]

\* The step consumes a chunk whose first choice carries non-empty text.
TextChunkStep ==
    nChunks' = nChunks + 1 /\ chunk'.hasChoice /\ chunk'.content # <<>>

\* C1: every chunk whose first choice carries non-empty text makes, in the
\* step that consumes it, one sink invocation with that chunk's own text,
\* appended after the earlier ones; no other step invokes the sink; and a
\* successful call returns exactly one text fragment, the concatenation of
\* the texts handed to the sink (none when the sink was never invoked).
C1_SinkPerChunk ==
    /\ [][IF TextChunkStep
          THEN sinkCalls' = Append(sinkCalls, chunk'.content)
          ELSE sinkCalls' = sinkCalls]_vars
    /\ [](result.kind = "ok" =>
             TextsOf(result.content) =
                 IF sinkCalls = <<>> THEN <<>> ELSE <<Flatten(sinkCalls)>>)

\* A successful call whose sink saw "a" then "b" and whose stream also had a
\* chunk with no text.
C1_Witness ==
    /\ result.kind = "ok"
    /\ sinkCalls = <<(<<"a">>), (<<"b">>)>>
    /\ nChunks = 3
    /\ TextsOf(result.content) = <<(<<"a", "b">>)>>

\* C2: once the sink has returned a failure the call has returned the wrapped
\* failure with no response, and the failing step and every later step leave
\* the accumulators, the chunk count and the sink's invocations as they are:
\* the tool-call deltas of the failing chunk are not accumulated and no later
\* chunk is consumed.
C2_SinkFailureAborts ==
    /\ [](sinkFailed =>
             /\ pc = "done"
             /\ result = Failure("streaming callback error")
             /\ ~ENABLED Next)
    /\ [][sinkFailed' => toolCallsMap' = toolCallsMap /\ sent' = sent]_vars
    /\ [][sinkFailed => nChunks' = nChunks /\ sinkCalls' = sinkCalls]_vars

\* The sink failed on the second chunk, which carried text and tool-call
\* deltas, after a first chunk whose delta was accumulated.
C2_Witness ==
    /\ sinkFailed
    /\ nChunks = 2
    /\ Len(sinkCalls) = 1
    /\ chunk.nToolCalls > 0
    /\ DOMAIN toolCallsMap # {}
    /\ result.kind = "err"

\* C3: the accumulator of a slot exists exactly when a delta was delivered
\* for the slot, and it holds the id of the first delta of the slot, the last
\* non-empty name and the concatenation, in arrival order, of the argument
\* fragments of the slot.
C3_Accumulator ==
    \A i \in Slots :
        /\ (i \in DOMAIN toolCallsMap) <=> (sent[i].n > 0)
        /\ i \in DOMAIN toolCallsMap =>
              /\ toolCallsMap[i].id = sent[i].firstId
              /\ toolCallsMap[i].name = sent[i].lastName
              /\ toolCallsMap[i].arguments = sent[i].frags

\* Slot 0 received two deltas and slot 1 one; the accumulator of slot 0 has
\* the id of its first delta, a name and the two fragments in order.
C3_Witness ==
    /\ sent[0].n = 2 /\ sent[1].n = 1
    /\ sent[0].firstId = "call_1"
    /\ sent[0].frags = <<"{", "}">>
    /\ toolCallsMap[0].id = "call_1"
    /\ toolCallsMap[0].name = "g"
    /\ toolCallsMap[0].arguments = <<"{", "}">>

\* A slot with a name whose buffer does not decode as JSON.
Undecodable(i) ==
    /\ toolCallsMap[i].name # ""
    /\ ~JSONUnmarshal(toolCallsMap[i].arguments).ok

\* C4 as stated: a named slot whose buffer is not valid JSON at finalization
\* makes the call fail.
C4_AnyInvalidBufferFails ==
    (pc = "done" /\ \E i \in DOMAIN toolCallsMap : Undecodable(i))
        => result.kind = "err"

\* C4 as amended: a named slot whose buffer is non-empty and not valid JSON
\* at finalization makes the call fail with no response.
C4_NonEmptyInvalidBufferFails ==
    (pc = "done" /\ \E i \in DOMAIN toolCallsMap :
                        Undecodable(i) /\ toolCallsMap[i].arguments # <<>>)
        => result.kind = "err" /\ result.content = <<>>

\* The stream ended without error with one well-formed tool call and one
\* whose buffer does not decode, and the call failed at the conversion.
C4_Witness ==
    /\ pc = "done" /\ ~streamErr /\ ~sinkFailed
    /\ DOMAIN toolCallsMap = {0, 1}
    /\ toolCallsMap[0].name = "f" /\ toolCallsMap[0].arguments = <<"{", "}">>
    /\ toolCallsMap[1].name = "g" /\ toolCallsMap[1].arguments = <<"}">>
    /\ result = Failure("failed to convert tool calls")

\* C6: a stream that ended with a transport error makes the call return the
\* wrapped stream failure and no response; the error is set only by the step
\* that finds the stream exhausted, so the chunks before it were consumed and
\* forwarded as usual.
C6_TransportError ==
    /\ [](streamErr => pc = "done" /\ result = Failure("stream error"))
    /\ [][streamErr' /\ ~streamErr =>
             pc = "next" /\ pc' = "done" /\ nChunks' = nChunks
             /\ sinkCalls' = sinkCalls]_vars

\* A transport error after text was forwarded to the sink and a tool call
\* was accumulated.
C6_Witness ==
    /\ streamErr
    /\ sinkCalls # <<>>
    /\ fullText # <<>>
    /\ \E i \in DOMAIN toolCallsMap : toolCallsMap[i].name # ""
    /\ result.kind = "err"

\* C7: the event source has been closed exactly once when the call has
\* returned, and not at all before.
C7_ClosedOnce ==
    IF pc = "done" THEN closed = 1 ELSE closed = 0

\* The call returned on a failure of the sink and the source is closed.
C7_Witness ==
    pc = "done" /\ sinkFailed /\ closed = 1

\* The slots whose accumulator has a name.
NamedSlots == {i \in DOMAIN toolCallsMap : toolCallsMap[i].name # ""}

\* The tool-request part of a named accumulator.
PartOf(i) ==
    NewToolRequestPart(
        toolCallsMap[i].name,
        IF toolCallsMap[i].arguments = <<>> THEN NilArgs
        ELSE JSONUnmarshal(toolCallsMap[i].arguments).args)

\* C8: the content of a successful call is the text fragment holding the
\* whole accumulated text, present exactly when that text is non-empty,
\* followed by one tool-request part per named accumulator and nothing else;
\* and a call whose stream and sink did not fail succeeds whenever every
\* named accumulator has an empty or decodable buffer, whatever the nameless
\* ones hold.
C8_FinalContent ==
    /\ result.kind = "ok" =>
          LET nText == IF fullText = <<>> THEN 0 ELSE 1
              tools == SubSeq(result.content, nText + 1, Len(result.content))
          IN  /\ Len(result.content) >= nText
              /\ nText = 1 => result.content[1] = NewTextPart(fullText)
              /\ \E o \in Orders(NamedSlots) :
                    tools = [k \in DOMAIN o |-> PartOf(o[k])]
    /\ (pc = "done" /\ ~streamErr /\ ~sinkFailed
        /\ \A i \in NamedSlots :
              toolCallsMap[i].arguments = <<>>
              \/ JSONUnmarshal(toolCallsMap[i].arguments).ok)
          => result.kind = "ok"

\* A successful call with text, a named tool call and a nameless accumulator
\* whose buffer does not decode.
C8_Witness ==
    /\ result.kind = "ok"
    /\ fullText = <<"a">>
    /\ DOMAIN toolCallsMap = {0, 1}
    /\ toolCallsMap[0].name = "" /\ toolCallsMap[0].arguments = <<"}">>
    /\ toolCallsMap[1].name = "f"
    /\ Len(result.content) = 2
    /\ result.content[2].type = "toolRequest"

-----------------------------------------------------------------------------
(* The unary call: claim C5 *)

\* The tool calls of choice zero whose arguments decode, in their order.
Decodable(calls) ==
    SelectSeq(calls, LAMBDA t : JSONUnmarshal(t.arguments).ok)

\* The tool calls of choice zero that have an id and whose arguments decode.
DecodableWithId(calls) ==
    SelectSeq(calls, LAMBDA t : t.id # "" /\ JSONUnmarshal(t.arguments).ok)

\* The content convertResponse is to return for the tool calls kept: the text
\* fragment of choice zero, if it has text, then one part per kept call.
ContentFor(kept) ==
    (IF resp.choices[1].content # <<>>
     THEN <<NewTextPart(resp.choices[1].content)>> ELSE <<>>)
    \o [k \in DOMAIN kept |->
           NewToolRequestPart(kept[k].name,
                              JSONUnmarshal(kept[k].arguments).args)]

\* The unary call has converted a response that has a choice.
Converted == syncPc = "done" /\ syncResult.kind = "ok" /\ resp.choices # <<>>

\* C5 as stated: the conversion never fails, and its content is the text
\* fragment followed by every tool call whose arguments decode, in order.
C5_EveryDecodableCallKept ==
    Converted => syncResult.content = ContentFor(Decodable(resp.choices[1].toolCalls))

\* C5 as amended: the conversion never fails, and its content is the text
\* fragment followed by every tool call that has a non-empty id and whose
\* arguments decode, in order; the other tool calls are left out.
C5_DecodableCallsWithIdKept ==
    /\ (syncPc = "done" /\ resp.choices # <<>>) => syncResult.kind = "ok"
    /\ Converted =>
          syncResult.content = ContentFor(DecodableWithId(resp.choices[1].toolCalls))

\* A response with text, a tool call whose arguments do not decode and,
\* after it, one whose arguments do: the second one only is returned.
C5_Witness ==
    /\ Converted
    /\ resp.choices[1].content = <<"a">>
    /\ Len(resp.choices[1].toolCalls) = 2
    /\ resp.choices[1].toolCalls[1] =
           [id |-> "call_1", name |-> "f", arguments |-> <<"}">>]
    /\ resp.choices[1].toolCalls[2] =
           [id |-> "call_1", name |-> "g", arguments |-> <<"{", "q", "}">>]
    /\ syncResult.content =
           <<NewTextPart(<<"a">>),
             NewToolRequestPart("g", [isNil |-> FALSE, keys |-> {"q"}])>>

-----------------------------------------------------------------------------
(* The dispatch: claim C9 *)

\* The two characters are the same letter, whatever their case.
SameLetter(a, b) ==
    \/ a = b
    \/ \E u \in DOMAIN Uppers :
          (a = Uppers[u] /\ b = Lowers[u]) \/ (a = Lowers[u] /\ b = Uppers[u])

\* pattern occurs in name, the case of the letters set aside.
Matches(name, pattern) ==
    \E i \in 0..(Len(name) - Len(pattern)) :
        \A k \in 1..Len(pattern) : SameLetter(name[i + k], pattern[k])

IsImageModel == Matches(modelName, PatDallE) \/ Matches(modelName, PatGptImage)
IsSpeechModel == Matches(modelName, PatTts)
IsSttModel == Matches(modelName, PatWhisper) \/ Matches(modelName, PatTranscribe)

\* C9: a request is handed to image generation if its model identifier
\* matches "dall-e" or "gpt-image"; otherwise to speech synthesis if it
\* matches "tts"; otherwise to transcription if it matches "whisper" or
\* "transcribe"; otherwise to chat completion.
C9_RoutingPriority ==
    routePc = "routed" =>
        /\ IsImageModel => handler = "generateImages"
        /\ (~IsImageModel /\ IsSpeechModel) => handler = "generateSpeech"
        /\ (~IsImageModel /\ ~IsSpeechModel /\ IsSttModel)
              => handler = "transcribeAudioFromRequest"
        /\ (~IsImageModel /\ ~IsSpeechModel /\ ~IsSttModel)
              => handler \in {"generateTextStream", "generateTextSync"}

\* An identifier in upper case that matches the image and the speech
\* patterns is handled by image generation.
C9_Witness ==
    /\ routePc = "routed"
    /\ modelName = <<"t", "t", "s", "D", "A", "L", "L", "-", "E">>
    /\ IsImageModel /\ IsSpeechModel
    /\ handler = "generateImages"

-----------------------------------------------------------------------------
(* Transcription: claim C10 *)

\* The media parts of the messages of the transcription request.
MediaParts(messages) ==
    SelectSeq(Flatten(messages), LAMBDA part : part.type = "media")

\* C10: a transcription request without any media part returns the failure
\* "no audio data found" and the vendor is not called.
C10_NoMediaNoCall ==
    (sttPc = "done" /\ MediaParts(sttInput) = <<>>) =>
        /\ sttResult = Failure("no audio data found in request")
        /\ vendorCalls = 0

\* An initialized plugin was asked to transcribe two messages of text only.
C10_Witness ==
    /\ sttPc = "done"
    /\ initted
    /\ Len(sttInput) = 2
    /\ Len(Flatten(sttInput)) >= 2
    /\ MediaParts(sttInput) = <<>>
    /\ sttResult = Failure("no audio data found in request")
    /\ vendorCalls = 0

-----------------------------------------------------------------------------
(* The message translator: claims C11 to C14 *)

\* The content of a message has a part of the kind.
HasKind(content, kind) == \E k \in DOMAIN content : content[k].kind = kind

\* C11 as stated: a non-empty user message yields one user entry, with an
\* array of fragments when the message has a media part or two parts or more
\* of any kind, one fragment per part in part order carrying the part's text
\* or media string, and with the string of its single part otherwise.
C11_ArrayForMediaOrManyParts ==
    (msg.role = "user" /\ msg.content # <<>>) =>
        /\ Len(appended) = 1
        /\ IF HasKind(msg.content, "media") \/ Len(msg.content) >= 2
           THEN /\ appended[1].form = "array"
                /\ Len(appended[1].parts) = Len(msg.content)
                /\ \A k \in DOMAIN msg.content :
                      /\ appended[1].parts[k].text = msg.content[k].text
                      /\ appended[1].parts[k].type =
                            IF msg.content[k].kind = "media"
                            THEN "image_url" ELSE "text"
           ELSE /\ appended[1].form = "string"
                /\ appended[1].text = msg.content[1].text

\* An entry of the vendor request that carries something.
HasContent(e) == e.text # <<>> \/ e.parts # <<>> \/ e.toolCalls # <<>>

\* C12 as stated: no entry of the translated sequence is without content; a
\* message whose parts yield nothing contributes no entry.
C12_NoEntryWithoutContent ==
    \A k \in DOMAIN appended : HasContent(appended[k])

\* The tool responses of a message, and those whose Output encodes.
ToolResponsesIn(content) ==
    SelectSeq(content, LAMBDA p : p.kind = "toolResponse")

EncodedResponses(content) ==
    SelectSeq(content,
              LAMBDA p : p.kind = "toolResponse" /\ JSONMarshal(p.value).ok)

\* Call ids follow names: a tool entry answers a translated tool request
\* exactly when the names are equal, and two calls of one assistant entry
\* have the same id exactly when they have the same name.
IdsFollowNames(answered) ==
    /\ msg.role = "tool" =>
          \A k \in DOMAIN answered : \A r \in requestIds :
              (k \in DOMAIN appended /\ appended[k].toolCallID = r.id)
                  <=> (answered[k].name = r.name)
    /\ \A e \in {appended[k] : k \in DOMAIN appended} :
          \A i, j \in DOMAIN e.toolCalls :
              (e.toolCalls[i].id = e.toolCalls[j].id)
                  <=> (e.toolCalls[i].name = e.toolCalls[j].name)

\* C13 as stated: every tool-response part of a tool message yields one tool
\* entry, and call ids follow names.
C13_EveryResponseYieldsEntry ==
    /\ msg.role = "tool" => Len(appended) = Len(ToolResponsesIn(msg.content))
    /\ IdsFollowNames(ToolResponsesIn(msg.content))

\* C13 as amended: every tool-response part of a tool message whose output
\* encodes yields one tool entry, in part order, the others none; and call
\* ids follow names.
C13_EncodedResponseYieldsEntry ==
    /\ msg.role = "tool" =>
          /\ Len(appended) = Len(EncodedResponses(msg.content))
          /\ \A k \in DOMAIN appended :
                /\ appended[k].role = "tool"
                /\ appended[k].text =
                      JSONMarshal(EncodedResponses(msg.content)[k].value).json
    /\ IdsFollowNames(EncodedResponses(msg.content))

\* After a model message that requested f, a tool message with a response of
\* f and one of g whose output does not encode: one entry, answering f.
C13_Witness ==
    /\ nMessages = 2
    /\ msg.role = "tool"
    /\ msg.content = <<MsgToolResponse(<<"g">>, "chan"),
                       MsgToolResponse(<<"f">>, "map")>>
    /\ Len(appended) = 1
    /\ \E r \in requestIds :
          r.name = <<"f">> /\ appended[1].toolCallID = r.id

\* The text parts of a message and its tool requests whose Input encodes.
TextsIn(content) ==
    LET texts == SelectSeq(content, LAMBDA p : p.kind = "text")
    IN  Flatten([k \in DOMAIN texts |-> texts[k].text])

EncodedRequests(content) ==
    SelectSeq(content,
              LAMBDA p : p.kind = "toolRequest" /\ JSONMarshal(p.value).ok)

\* The assistant entry of a model message: the text parts joined in part
\* order and one function call per tool request whose Input encodes.
AssistantEntryOf(content) ==
    /\ Len(appended) = 1
    /\ appended[1].role = "assistant"
    /\ appended[1].text = TextsIn(content)
    /\ LET reqs == EncodedRequests(content)
       IN  /\ Len(appended[1].toolCalls) = Len(reqs)
           /\ \A k \in DOMAIN reqs :
                 /\ appended[1].toolCalls[k].name = reqs[k].name
                 /\ appended[1].toolCalls[k].arguments =
                       JSONMarshal(reqs[k].value).json

\* C14 as stated: every model message yields one such assistant entry.
C14_ModelMessageYieldsEntry ==
    msg.role = "model" => AssistantEntryOf(msg.content)

\* C14 as amended: every model message with at least one part yields one
\* such assistant entry.
C14_NonEmptyModelMessageYieldsEntry ==
    (msg.role = "model" /\ msg.content # <<>>) => AssistantEntryOf(msg.content)

\* A model message whose first tool request does not encode and whose second
\* does: the entry has the second call only.
C14_Witness ==
    /\ msg.role = "model"
    /\ msg.content = <<MsgToolRequest(<<"f">>, "chan"),
                       MsgToolRequest(<<"g">>, "mapq")>>
    /\ Len(appended) = 1
    /\ Len(appended[1].toolCalls) = 1
    /\ appended[1].toolCalls[1].name = <<"g">>

-----------------------------------------------------------------------------
(* The config of a request: claims C15 and C16 *)

\* The config is a map whose toolChoice is one of the three literal strings.
LiteralToolChoice ==
    /\ config.form = "map"
    /\ config.entries["toolChoice"] \in
          {StringValue("auto"), StringValue("required"), StringValue("none")}

\* C15 as stated: the params of a chat request have a tool-choice policy
\* exactly when toolChoice is one of the three literal strings, the policy of
\* that name, and they have no tool list when the request declares no tool.
C15_PolicyIffLiteralChoice ==
    reqKind = "chat" =>
        /\ (built.ToolChoice # "") <=> LiteralToolChoice
        /\ LiteralToolChoice =>
              built.ToolChoice = config.entries["toolChoice"].val
        /\ inputTools = <<>> => built.Tools = <<>>

\* C15 as amended: the params of a chat request have a tool-choice policy
\* exactly when the request declares a tool and toolChoice is one of the
\* three literal strings, the policy of that name, and they have no tool
\* list when the request declares no tool.
C15_PolicyIffToolsAndLiteralChoice ==
    reqKind = "chat" =>
        /\ (built.ToolChoice # "") <=> (inputTools # <<>> /\ LiteralToolChoice)
        /\ built.ToolChoice # "" =>
              built.ToolChoice = config.entries["toolChoice"].val
        /\ inputTools = <<>> => built.Tools = <<>>
        /\ inputTools # <<>> => built.Tools = inputTools

\* A request with two tools and toolChoice "required".
C15_Witness ==
    /\ reqKind = "chat"
    /\ inputTools = <<"f", "g">>
    /\ LiteralToolChoice
    /\ built.ToolChoice = "required"
    /\ built.Tools = <<"f", "g">>

\* The config gives the key a value of the type.
Given(key, type) ==
    config.form = "map" /\ config.entries[key].type = type

\* The field of the request built has the value the config gives the key
\* when that value has the type, and the default otherwise.
FieldFollows(field, key, type, default) ==
    built[field] = IF Given(key, type) THEN config.entries[key].val
                   ELSE default

\* The pointer field of the chat params is set, to the value the config
\* gives the key, exactly when that value has the type.
PointerFollows(field, key, type) ==
    /\ built[field].set <=> Given(key, type)
    /\ built[field].set => built[field].val = config.entries[key].val

-----------------------------------------------------------------------------
(* The image, speech and transcription handlers: claim C17 *)

\* The request of an image, speech or transcription model that returned a
\* response.
ModalSucceeded ==
    \/ modalPc = "done" /\ modalResult.kind = "ok"
    \/ sttPc = "done" /\ sttResult.kind = "ok"

ModalResponse == IF modalPc = "done" THEN modalResult ELSE sttResult

IsText(part) == part.type = "text"

HasPayload(img) == img.URL # <<>> \/ img.B64JSON # <<>>

\* C17, as claimed: every successful image, speech or transcription request
\* returns one text fragment and the finish reason "stop", however many
\* results the vendor returned.
C17_SingleTextFragment ==
    ModalSucceeded =>
        /\ Len(ModalResponse.content) = 1
        /\ IsText(ModalResponse.content[1])
        /\ ModalResponse.finishReason = "stop"

\* C17, amended: every successful image, speech or transcription request
\* returns the finish reason "stop" and text fragments only; a speech request
\* returns one fragment, four characters for every three bytes of audio
\* begun; a transcription request returns one fragment; an image request
\* returns one fragment for each returned image that has a URL or a base64
\* payload, in the vendor's order, holding the URL if the image has one and
\* the payload otherwise.
C17_FragmentPerResult ==
    ModalSucceeded =>
        LET content == ModalResponse.content
            shown == SelectSeq(vendorData, HasPayload)
        IN  /\ ModalResponse.finishReason = "stop"
            /\ \A k \in DOMAIN content : IsText(content[k])
            /\ sttPc = "done" => Len(content) = 1
            /\ modalKind = "generateSpeech" =>
                  /\ Len(content) = 1
                  /\ Len(content[1].text) = 4 * ((Len(vendorData) + 2) \div 3)
            /\ modalKind = "generateImages" =>
                  /\ Len(content) = Len(shown)
                  /\ \A k \in DOMAIN shown :
                        content[k].text = IF shown[k].URL # <<>>
                                          THEN shown[k].URL
                                          ELSE shown[k].B64JSON

\* An image request for which the vendor returned two images, the first with
\* a base64 payload only and the second with a URL, has returned.
C17_Witness ==
    /\ modalPc = "done"
    /\ modalKind = "generateImages"
    /\ modalResult.kind = "ok"
    /\ Len(vendorData) = 2
    /\ vendorData[1].URL = <<>> /\ vendorData[1].B64JSON # <<>>
    /\ vendorData[2].URL # <<>>
    /\ Len(modalResult.content) = 2

-----------------------------------------------------------------------------
(* Vendor failures and the plugin's lock: claims C18 and C19 *)

\* The chat, image, speech and transcription requests.
SingleCallKinds == ChatKinds \cup LockingKinds

\* C18: a chat request, unary or streaming, and an image, speech or
\* transcription request issue at most one vendor call, and issue none after
\* the vendor reported a failure; a request whose vendor call failed returns
\* a failure that names the operation, and no response.
C18_NoRetryAfterVendorFailure ==
    /\ [](rqKind \in SingleCallKinds =>
            /\ rqCalls <= 1
            /\ rqFailed /\ rqPc = "done" =>
                  /\ rqReturn.what = "failure"
                  /\ rqReturn.err = VendorFailureOf(rqKind)
                  /\ rqReturn.err \in {"chat completion failed",
                                       "stream error",
                                       "image generation failed",
                                       "speech generation failed",
                                       "audio transcription failed"})
    /\ [][rqFailed /\ rqKind \in SingleCallKinds /\ rqKind' = rqKind
             => rqCalls' <= rqCalls]_vars

\* A streaming chat request whose one vendor call failed has returned the
\* failure of the stream.
C18_Witness ==
    /\ rqPc = "done"
    /\ rqKind = "generateTextStream"
    /\ rqFailed
    /\ rqCalls = 1
    /\ rqReturn = Returned("failure", "stream error")

\* C19, as claimed: every read of a.client by a request is made by a request
\* that holds a.mu.
C19_EveryReadHoldsLock ==
    lastRead # NoRead => lastRead.locked

\* C19, amended: a.client changes only in a step of Init, which holds a.mu
\* before and after it; an image, speech or transcription request reads
\* a.client while it holds a.mu; a chat or embedding request reads it without
\* a.mu; and every read finds the client Init stored, at a moment when no
\* caller of Init is between its write of a.client and its unlock.
C19_NoReadInterleavesWithWrite ==
    /\ [](/\ initPc \in {"checked", "written", "stored"} => mu = "Init"
          /\ lastRead # NoRead =>
                /\ lastRead.locked <=> lastRead.by \in LockingKinds
                /\ lastRead.clientAt = "set"
                /\ lastRead.initAt \in {"idle", "locked"})
    /\ [][client' # client =>
             /\ mu = "Init" /\ mu' = "Init"
             /\ initPc = "checked"
             /\ lastRead = NoRead]_vars

\* A unary chat request has read a.client without a.mu while a second caller
\* of Init held it.
C19_Witness ==
    /\ lastRead.by = "generateTextSync"
    /\ ~lastRead.locked
    /\ lastRead.initAt = "locked"
    /\ lastRead.clientAt = "set"

-----------------------------------------------------------------------------
(* The response of a streaming call: claim C20 *)

\* C20, as claimed: the response a streaming chat call returns carries the
\* finish reason that convertFinishReason gives for the finish reason the
\* vendor reported for the stream, and the usage convertResponse would fill
\* from the usage the vendor reported.
C20_StreamResponseAsConverted ==
    pc = "done" /\ result.kind = "ok" /\ reported # NoReport =>
        /\ result.finishReason = convertFinishReason(reported.finishReason)
        /\ result.usage = convertUsage(reported.usage)

-----------------------------------------------------------------------------
(* The unary response: claims C21 to C23 *)

\* The unary call returned the conversion of a vendor response.
SyncConverted == syncPc = "done" /\ syncResult.kind = "ok"

\* C21: the finish reason of a converted response with a choice is a
\* function of the reason of choice zero: stop for "stop", length for
\* "length", blocked for "content_filter", stop for "tool_calls" and
\* "function_call", and other for every other string, the empty one
\* included.
C21_FinishReasonTable ==
    SyncConverted /\ Len(resp.choices) > 0 =>
        LET reason == resp.choices[1].finishReason
            fr == syncResult.finishReason
        IN  /\ reason = "stop" => fr = "stop"
            /\ reason = "length" => fr = "length"
            /\ reason = "content_filter" => fr = "blocked"
            /\ reason = "tool_calls" => fr = "stop"
            /\ reason = "function_call" => fr = "stop"
            /\ reason \notin {"stop", "length", "content_filter",
                              "tool_calls", "function_call"} => fr = "other"

\* A response whose choice zero carries "content_filter" was converted.
C21_Witness ==
    /\ SyncConverted
    /\ Len(resp.choices) > 0
    /\ resp.choices[1].finishReason = "content_filter"
    /\ syncResult.finishReason = "blocked"

\* The counters of the returned usage are those the vendor reported if it
\* reported prompt tokens, and zero otherwise.
CountersFollowPromptTokens ==
    IF resp.usage.promptTokens > 0
    THEN /\ syncResult.usage.input = resp.usage.promptTokens
         /\ syncResult.usage.output = resp.usage.completionTokens
         /\ syncResult.usage.total = resp.usage.totalTokens
    ELSE /\ syncResult.usage.input = 0
         /\ syncResult.usage.output = 0
         /\ syncResult.usage.total = 0

\* C22, as claimed: every converted response carries a usage whose three
\* counters are the vendor's if the vendor reported prompt tokens, and zero
\* otherwise.
C22_UsageFollowsPromptTokens ==
    SyncConverted => syncResult.usage.set /\ CountersFollowPromptTokens

\* C22, amended: a converted response with a choice carries a usage whose
\* three counters are the vendor's if the vendor reported prompt tokens, and
\* zero otherwise; a converted response without a choice carries no usage.
C22_UsageOfChoiceFollowsPromptTokens ==
    SyncConverted =>
        IF Len(resp.choices) > 0
        THEN syncResult.usage.set /\ CountersFollowPromptTokens
        ELSE ~syncResult.usage.set

\* A response that reports completion tokens and no prompt tokens was
\* converted.
C22_Witness ==
    /\ SyncConverted
    /\ Len(resp.choices) > 0
    /\ resp.usage.promptTokens = 0
    /\ resp.usage.completionTokens > 0
    /\ syncResult.usage.set
    /\ syncResult.usage.total = 0

\* C23: a response without a choice is converted to a response with no
\* content and the finish reason "unknown"; a response with choices is
\* converted as the response that holds its choice zero alone.
C23_ChoiceZeroOnly ==
    syncPc = "done" /\ syncResult # Failure("chat completion failed") =>
        IF Len(resp.choices) = 0
        THEN /\ syncResult.kind = "ok"
             /\ syncResult.content = <<>>
             /\ syncResult.finishReason = "unknown"
        ELSE /\ syncResult.kind = "ok"
             /\ syncResult =
                   convertResponse([resp EXCEPT
                                       !.choices = <<resp.choices[1]>>])

\* A response with two choices that differ in content and finish reason was
\* converted.
C23_Witness ==
    /\ SyncConverted
    /\ Len(resp.choices) = 2
    /\ resp.choices[1].content # resp.choices[2].content
    /\ resp.choices[1].finishReason # resp.choices[2].finishReason
    /\ syncResult.finishReason = convertFinishReason(resp.choices[1].finishReason)

-----------------------------------------------------------------------------
(* The order of the tool-request parts of a streaming call: claim C24 *)

\* The named slots in ascending order.
AscendingSlots ==
    CHOOSE o \in Orders(NamedSlots) :
        \A i, j \in DOMAIN o : i < j => o[i] < o[j]

\* C24, as claimed: the tool-request parts of a successful streaming call are
\* those of the named accumulators in ascending order of their slots.
C24_AscendingSlotOrder ==
    pc = "done" /\ result.kind = "ok" =>
        LET nText == IF fullText = <<>> THEN 0 ELSE 1
            parts == SubSeq(result.content, nText + 1, Len(result.content))
        IN  parts = [k \in DOMAIN AscendingSlots |-> PartOf(AscendingSlots[k])]

-----------------------------------------------------------------------------
(* The initialized flag: claim C25 *)

\* The caller of Init leaves its check of a.initted and a.Endpoint.
InitChecks == initPc = "locked" /\ initPc' # "locked"

\* C25: a.initted never goes back to false and a.client, once set, is never
\* written again; outside Init the flag is set exactly when the client is;
\* an Init that finds the endpoint empty or the flag set aborts and leaves
\* both as they were; DefineModel and DefineEmbedder register a closure only
\* when the flag is set; and an image, speech or transcription request that
\* finds the flag unset returns "client not initialized" without a vendor
\* call.
C25_InittedOnce ==
    /\ [](/\ mu # "Init" => (initted <=> client = "set")
          /\ registered # {} => initted
          /\ rqReturn.err = "azureaifoundry: client not initialized" =>
                /\ rqKind \in LockingKinds
                /\ rqReturn.what = "failure"
                /\ rqCalls = 0)
    /\ [][/\ initted => initted'
          /\ client = "set" => client' = "set"
          /\ InitChecks /\ (endpoint = "" \/ initted) =>
                /\ initPc' = "idle"
                /\ client' = client
                /\ initted' = initted
          /\ registered' # registered => initted
          /\ rqPc = "locked" /\ rqPc' # "locked" /\ ~initted =>
                /\ rqPc' = "done"
                /\ rqReturn' =
                      Returned("failure",
                               "azureaifoundry: client not initialized")
                /\ rqCalls' = 0]_vars

\* An image request made before any Init succeeded, the last Init having
\* found the endpoint empty, has returned "client not initialized" without a
\* vendor call.
C25_Witness ==
    /\ rqPc = "done"
    /\ rqKind = "generateImages"
    /\ rqReturn = Returned("failure", "azureaifoundry: client not initialized")
    /\ rqCalls = 0
    /\ ~initted
    /\ client = "zero"
    /\ endpoint = ""
    /\ initPc = "idle"
    /\ mu = "free"

-----------------------------------------------------------------------------
(* The two chat paths on the same tool calls: claim C26 *)

Emits(res, part) ==
    res.kind = "ok" /\ \E k \in DOMAIN res.content : res.content[k] = part

\* The calls of the turn whose arguments are a JSON object.
DecodableCalls ==
    {k \in DOMAIN pathCalls : JSONUnmarshal(pathCalls[k].arguments).ok}

NamedCalls == {k \in DOMAIN pathCalls : pathCalls[k].name # ""}

IdentifiedCalls == {k \in DOMAIN pathCalls : pathCalls[k].id # ""}

DecodedPart(k) ==
    NewToolRequestPart(pathCalls[k].name,
                       JSONUnmarshal(pathCalls[k].arguments).args)

\* The streaming path returns a part for every named call, with a nil input
\* for a call without arguments, unless the arguments of a named call do not
\* decode; the unary path returns a part for the calls that have an id and
\* arguments that decode, and for no other.
EmptyArgumentsDiffer ==
    /\ viaSync.kind = "ok"
    /\ Len(viaSync.content) = Cardinality(IdentifiedCalls \cap DecodableCalls)
    /\ viaStream.kind = "ok" <=>
          \A k \in NamedCalls :
              pathCalls[k].arguments = <<>> \/ k \in DecodableCalls
    /\ viaStream.kind = "ok" =>
          /\ Len(viaStream.content) = Cardinality(NamedCalls)
          /\ \A k \in NamedCalls :
                pathCalls[k].arguments = <<>> =>
                    Emits(viaStream,
                          NewToolRequestPart(pathCalls[k].name, NilArgs))

-----------------------------------------------------------------------------
(* The audio of a transcription request: claim C27 *)

HasMarker(part) == \E k \in DOMAIN part.text : part.text[k] = Marker

\* The media parts of the request that carry the marker, in message and part
\* order.
MarkerParts ==
    SelectSeq(Flatten(sttInput),
              LAMBDA part : part.type = "media" /\ HasMarker(part))

\* What follows the first marker of a part, decoded.
Payload(part) ==
    DecodeString(SubSeq(part.text, MarkerIndex(part.text) + 1, Len(part.text)))

-----------------------------------------------------------------------------
(* The documents of an embedding request: claim C28 *)

\* The documents the loop has been through.
Visited == 1..(IF embedPc = "idle" THEN 0 ELSE embedIndex - 1)

HasText(doc) == \E k \in DOMAIN doc : doc[k].kind = "text" /\ doc[k].text # <<>>

\* C28: the vendor calls of an embedding request are one for each document
\* with text that the loop has been through, in input order, and none for a
\* document without text; a failing call ends the request with the failure
\* "embedding generation failed" and without vectors, the failing call being
\* the last one; a request that succeeds has been through every document
\* and returns the vectors appended so far, no more than the documents, each
\* vector after those of earlier documents; and once the request has
\* returned no further call is made.
C28_OneCallPerDocumentWithText ==
    /\ [](/\ \A k \in Visited :
                HasText(embedInput[k]) <=>
                    \E c \in DOMAIN embedSent : embedSent[c].doc = k
          /\ \A c, d \in DOMAIN embedSent :
                /\ embedSent[c].doc \in Visited
                /\ embedSent[c].text # <<>>
                /\ c < d => embedSent[c].doc < embedSent[d].doc
          /\ embedResult.kind = "err" =>
                /\ embedPc = "done"
                /\ embedResult.err = "embedding generation failed"
                /\ embedResult.embeddings = <<>>
                /\ embedSent # <<>>
                /\ embedSent[Len(embedSent)].doc = embedIndex - 1
          /\ embedResult.kind = "ok" =>
                /\ embedPc = "done"
                /\ Visited = DOMAIN embedInput
                /\ embedResult.embeddings = embeddings
                /\ Len(embeddings) = Len(embedOrigins)
                /\ Len(embeddings) <= Len(embedInput)
                /\ \A v, w \in DOMAIN embedOrigins :
                      v < w => embedOrigins[v] < embedOrigins[w])
    /\ [][embedPc = "done" => embedSent' = embedSent]_vars

\* A request of two documents, the first without text, has returned one
\* vector, which belongs to the second document.
C28_Witness ==
    /\ embedPc = "done"
    /\ embedResult.kind = "ok"
    /\ Len(embedInput) = 2
    /\ ~HasText(embedInput[1])
    /\ Len(embedResult.embeddings) = 1
    /\ embedOrigins = <<2>>
    /\ Len(embedSent) = 1

-----------------------------------------------------------------------------
(* The callback of a request: claim C29 *)

ChatHandlers == {"generateTextStream", "generateTextSync"}

\* C29: a request that is not for an image, speech or transcription model
\* is handled by generateTextStream if it comes with a callback and by
\* generateTextSync if not; the callback is handed to generateTextStream
\* and to no other handler, so that the handler of an image, speech or
\* transcription request, and generateTextSync, never invoke it.
C29_SinkOnlyOnStreamingChat ==
    routePc = "routed" =>
        /\ handler \in ChatHandlers =>
              (handler = "generateTextStream" <=> cbSupplied)
        /\ handler \in ChatHandlers <=>
              ~(IsImageModel \/ IsSpeechModel \/ IsSttModel)
        /\ cbHanded <=> handler = "generateTextStream"
        /\ cbHanded => cbSupplied
        /\ sinkInvoked => handler = "generateTextStream" /\ cbSupplied

\* A request for a speech model came with a callback, which its handler was
\* not handed.
C29_Witness ==
    /\ routePc = "routed"
    /\ handler = "generateSpeech"
    /\ cbSupplied
    /\ ~cbHanded
    /\ ~sinkInvoked

=============================================================================
